---- MODULE Spec2Model ----
(***************************************************************************)
(* Model of the syncplay server's room synchronisation core (index.ts):    *)
(* the room_state table, the in-memory socketsByRoom registry, the         *)
(* websocket open/close/message handlers and the /api/room/set-video       *)
(* route.  JavaScript values are modelled as tagged records so that the    *)
(* conversions the code performs (??, Number(), Number.isFinite, === 1)    *)
(* are computed the way the runtime computes them.                         *)
(***************************************************************************)
EXTENDS Integers, Sequences, FiniteSets, TLC

\* ------------------------------------------------------------------------
\* Bounds of the model
\* ------------------------------------------------------------------------

\* The wall clock (Date.now()) is cut off at this value.
MaxClock == 1

\* The browser's clock advances this many times, by 300 ms each time.
MaxSteps == 2

\* A state message arrives and the user touches the controls only while
\* fewer than this many media events wait to be dispatched.
MaxPending == 2

\* ------------------------------------------------------------------------
\* JavaScript values
\* ------------------------------------------------------------------------

Undefined == [t |-> "undefined", v |-> 0, s |-> ""]
Null == [t |-> "null", v |-> 0, s |-> ""]
Num(n) == [t |-> "number", v |-> n, s |-> ""]
NaN == [t |-> "NaN", v |-> 0, s |-> ""]
Infinity == [t |-> "Infinity", v |-> 0, s |-> ""]
Str(x) == [t |-> "string", v |-> 0, s |-> x]

\* a || b : b replaces a whenever a is falsy (0, NaN and "" included)
LogicalOr(a, b) ==
  IF \/ a.t \in {"undefined", "null", "NaN"}
     \/ a.t = "number" /\ a.v = 0
     \/ a.t = "string" /\ a.s = ""
  THEN b ELSE a

\* a ?? b : b replaces a only when a is null or undefined
NullishCoalesce(a, b) == IF a.t \in {"undefined", "null"} THEN b ELSE a

\* StringToNumber for the strings the model sends: "" is 0, decimal text is
\* its value, anything else is NaN
StringToNumber(x) ==
  CASE x = "" -> Num(0)
    [] x = "2" -> Num(2)
    [] OTHER -> NaN

\* Number(x)
Number(x) ==
  CASE x.t = "undefined" -> NaN
    [] x.t = "null" -> Num(0)
    [] x.t = "string" -> StringToNumber(x.s)
    [] OTHER -> x

\* !Number.isNaN(x)
NumberIsNotNaN(x) == x.t # "NaN"

\* Number.isFinite(x)
NumberIsFinite(x) == x.t = "number"

\* ------------------------------------------------------------------------
\* Input domains
\* ------------------------------------------------------------------------

RoomIds == {"main"}
Channels == {"c1", "c2"}
Videos == {"a.mp4"}

\* loadSubtitles skips a video it loaded less than this many ms ago
DebounceMs == 30000

\* the action kinds the hub accepts
ActionKinds == <<"play", "pause", "seek", "rate", "sync">>

\* JSON values a client can put in the numeric fields of an action message.
\* Absent is a missing key; Infinity is what JSON.parse makes of 1e999;
\* Str("abc") is a non-numeric string.
PositionFields == {Undefined, Null, Num(-1), Num(2), Str("abc")}
PlaybackRateFields == {Undefined, Num(0), Num(2), Infinity}

\* The inbound websocket frames of the model.  json is what JSON.parse makes
\* of the text: "throws" (unparsable), "null" (parses to a non-object) or
\* "object"; the other fields are the object's keys.
Frame(json, type, action, position, playbackRate) ==
  [json |-> json, type |-> type, action |-> action,
   position |-> position, playbackRate |-> playbackRate]
NoFrame == Frame("none", "", "", Undefined, Undefined)
\* action frames of the five kinds, with every pair of numeric fields
KnownFrames ==
  {Frame("object", "action", ActionKinds[i], p, r) :
     i \in DOMAIN ActionKinds, p \in PositionFields, r \in PlaybackRateFields}
\* action frames of a kind the hub does not know
UnknownFrames ==
  {Frame("object", "action", "foo", Undefined, Undefined),
   Frame("object", "action", "foo", Num(2), Num(2))}
OtherFrames ==
  {Frame("throws", "", "", Undefined, Undefined),
   Frame("null", "", "", Undefined, Undefined),
   Frame("object", "state", "play", Num(2), Num(2))}
Frames == KnownFrames \cup UnknownFrames \cup OtherFrames

\* what getSession(request) returns for a request: null or a session
NoSession == [ok |-> FALSE, isAdmin |-> FALSE]
Session(isAdmin) == [ok |-> TRUE, isAdmin |-> isAdmin]

\* the videoPath key of a set-video body: missing, null or a path
VideoPathFields == {Undefined, Null} \cup {Str(x) : x \in Videos}

\* ------------------------------------------------------------------------
\* State
\* ------------------------------------------------------------------------

VARIABLES
  room_state,     \* the room_state table: room_id -> row, for the rows that exist
  socketsByRoom,  \* the registry: room id -> set of open sockets, for the keys set
  wsData,         \* per socket: ws.data.roomId and the socket's life cycle
  clock,          \* Date.now()
  sendLog,        \* the ws.send calls of the last handler, in order
  last,           \* the last handler that ran, with its inputs
  kept,           \* whether the last handler found a row for its room and left
                  \* its video_path, position, paused and playback_rate as they were
  seen,           \* per socket: the updatedAt of the last state message sent to
                  \* it since it opened, NotSeen before the first one
  sendThrows,     \* the open sockets whose send() throws
  dbFails,        \* whether a write statement on the table throws
  \* one browser running app.js
  appState,       \* the state object: applyingRemote, currentVideo,
                  \* ignoreEventsUntil, and whether state.ws is OPEN
  videoPlayer,    \* el.videoPlayer: currentTime (ms), paused, playbackRate, seeking
  pending,        \* the media events queued on el.videoPlayer and not yet dispatched
  now,            \* Date.now() in the browser, in ms
  outbox,         \* the state.ws.send calls of the last handler of the page
  lastApp,        \* the last handler of the page that ran, with its inputs
  subtitles,      \* the page's subtitle state: the flags of state, the request
                  \* in flight, the options of subtitleSelect, the track shown
  \* the accounts kept in the database
  users,          \* the users table: email -> row, for the rows that exist
  invites,        \* the invites table: token -> row
  sessions,       \* the sessions table: token -> row
  sqlite_sequence,\* the number of session rows ever inserted (AUTOINCREMENT)
  wsUserId,       \* per socket: ws.data.userId, the user of its upgrade request
  lastAuth        \* the last account handler that ran, with its inputs

hubVars == <<room_state, socketsByRoom, wsData, clock, sendLog, last, kept,
             seen, sendThrows, dbFails>>
clientVars == <<appState, videoPlayer, pending, now, outbox, lastApp, subtitles>>
authVars == <<users, invites, sessions, sqlite_sequence, wsUserId, lastAuth>>
vars == <<hubVars, clientVars, authVars>>

\* the value of seen for a socket that was sent no state message
NotSeen == [iso |-> -1]

\* a clock that runs backwards
nowIsoBackwards == [iso |-> MaxClock - clock]

\* new Date().toISOString(): the clock reading as an ISO-8601 text
nowIso == [iso |-> clock]

\* A handler invocation: the handler, its inputs and the HTTP status it
\* answers with (0 for the websocket handlers, which answer nothing).
Call(op, ws, roomId, frame, session, videoPath, status) ==
  [op |-> op, ws |-> ws, roomId |-> roomId, frame |-> frame,
   session |-> session, videoPath |-> videoPath, status |-> status]

\* ------------------------------------------------------------------------
\* Room State Store
\* ------------------------------------------------------------------------

\* a read that replaces the row by a new default row every time
getRoomStateReplaces(db, roomId) ==
  LET state == [room_id |-> roomId, video_path |-> Null,
                position |-> Num(0), paused |-> Num(1),
                playback_rate |-> Num(1), updated_at |-> nowIso]
  IN [state |-> state,
      db |-> [r \in DOMAIN db \cup {roomId} |-> IF r = roomId THEN state ELSE db[r]]]

\* a table whose write statements never throw
WriteNeverThrows == FALSE

\* whether db.query("INSERT ..." / "UPDATE ...").run(...) throws
WriteThrows == dbFails

\* getRoomState(roomId): the row of roomId, inserted with the defaults when
\* the table has none.  state is the value returned, db the table afterwards.
getRoomState(db, roomId) ==
  IF roomId \in DOMAIN db
  THEN [state |-> db[roomId], db |-> db]
  ELSE LET state == [room_id |-> roomId, video_path |-> Null,
                     position |-> Num(0), paused |-> Num(1),
                     playback_rate |-> Num(1), updated_at |-> nowIso]
       IN [state |-> state, db |-> db @@ (roomId :> state)]

\* the updates argument of updateRoomState: a key left out is undefined
Updates(video_path, position, paused, playback_rate) ==
  [video_path |-> video_path, position |-> position, paused |-> paused,
   playback_rate |-> playback_rate]

\* whether table db has a row for roomId whose playback fields are those of row
SameFields(db, roomId, row) ==
  /\ roomId \in DOMAIN db
  /\ db[roomId].video_path = row.video_path
  /\ db[roomId].position = row.position
  /\ db[roomId].paused = row.paused
  /\ db[roomId].playback_rate = row.playback_rate

\* an update that writes the new values into the row of every room
updateRoomStateAllRows(db, roomId, updates) ==
  LET got == getRoomState(db, roomId)
      current == got.state
      next == [room_id |-> roomId,
               video_path |-> NullishCoalesce(updates.video_path, current.video_path),
               position |-> NullishCoalesce(updates.position, current.position),
               paused |-> NullishCoalesce(updates.paused, current.paused),
               playback_rate |-> NullishCoalesce(updates.playback_rate, current.playback_rate),
               updated_at |-> nowIso]
  IN [next |-> next,
      db |-> [r \in DOMAIN got.db |-> [next EXCEPT !.room_id = r]]]

\* an update that stamps the row with the epoch instead of the clock
updateRoomStateUnstamped(db, roomId, updates) ==
  LET got == getRoomState(db, roomId)
      current == got.state
      next == [room_id |-> roomId,
               video_path |-> NullishCoalesce(updates.video_path, current.video_path),
               position |-> NullishCoalesce(updates.position, current.position),
               paused |-> NullishCoalesce(updates.paused, current.paused),
               playback_rate |-> NullishCoalesce(updates.playback_rate, current.playback_rate),
               updated_at |-> [iso |-> 0]]
  IN [next |-> next, db |-> [got.db EXCEPT ![roomId] = next]]

\* an update that writes the new row and returns the row it read
updateRoomStateReturnsRead(db, roomId, updates) ==
  LET got == getRoomState(db, roomId)
      current == got.state
      next == [room_id |-> roomId,
               video_path |-> NullishCoalesce(updates.video_path, current.video_path),
               position |-> NullishCoalesce(updates.position, current.position),
               paused |-> NullishCoalesce(updates.paused, current.paused),
               playback_rate |-> NullishCoalesce(updates.playback_rate, current.playback_rate),
               updated_at |-> nowIso]
  IN [next |-> current, db |-> [got.db EXCEPT ![roomId] = next]]

\* updateRoomState(roomId, updates): read the row, coalesce, stamp, write.
\* next is the value returned, db the table afterwards.
updateRoomState(db, roomId, updates) ==
  LET got == getRoomState(db, roomId)
      current == got.state
      next == [room_id |-> roomId,
               video_path |-> NullishCoalesce(updates.video_path, current.video_path),
               position |-> NullishCoalesce(updates.position, current.position),
               paused |-> NullishCoalesce(updates.paused, current.paused),
               playback_rate |-> NullishCoalesce(updates.playback_rate, current.playback_rate),
               updated_at |-> nowIso]
  IN [next |-> next, db |-> [got.db EXCEPT ![roomId] = next]]

\* ------------------------------------------------------------------------
\* Sync Hub
\* ------------------------------------------------------------------------

\* the { type: "state", data: {...} } object built from a row
StateMessage(roomId, row) ==
  [type |-> "state",
   data |-> [roomId |-> roomId,
             videoPath |-> row.video_path,
             position |-> row.position,
             paused |-> (row.paused = Num(1)),
             playbackRate |-> row.playback_rate,
             updatedAt |-> row.updated_at,
             serverTime |-> clock]]

\* a broadcast that stops after its first send
broadcastRoomFirstOnly(registry, roomId, message) ==
  IF roomId \notin DOMAIN registry \/ registry[roomId] = <<>>
  THEN <<>>
  ELSE <<[to |-> registry[roomId][1], payload |-> message]>>

\* Of a run of socket.send calls made one after the other with nothing
\* catching an exception: the calls that sent their message, which are those
\* before the first call that throws.
Returned(calls) ==
  LET thrown == {i \in 1..Len(calls) : calls[i].to \in sendThrows}
  IN IF thrown = {}
     THEN calls
     ELSE SubSeq(calls, 1, (CHOOSE i \in thrown : \A j \in thrown : i <= j) - 1)

\* whether one of the calls throws
Throws(calls) == \E i \in 1..Len(calls) : calls[i].to \in sendThrows

\* the socket.send calls of broadcastRoom(roomId, message), in the insertion
\* order of the room's Set
BroadcastCalls(registry, roomId, message) ==
  IF roomId \notin DOMAIN registry
  THEN <<>>
  ELSE [i \in 1..Len(registry[roomId]) |->
          [to |-> registry[roomId][i], payload |-> message]]

\* broadcastRoom(roomId, message): the sends it makes
broadcastRoom(registry, roomId, message) ==
  Returned(BroadcastCalls(registry, roomId, message))

\* seen after the sends of a handler
Receive(log) ==
  [ws \in Channels |->
     IF \E i \in 1..Len(log) : log[i].to = ws
     THEN LET i == CHOOSE i \in 1..Len(log) :
                     /\ log[i].to = ws
                     /\ \A j \in 1..Len(log) : log[j].to = ws => j <= i
          IN log[i].payload.data.updatedAt
     ELSE seen[ws]]

\* ensureRoomSockets(roomId): the registry with a Set under roomId
ensureRoomSockets(registry, roomId) ==
  IF roomId \in DOMAIN registry THEN registry ELSE registry @@ (roomId :> <<>>)

\* an add and a delete that leave the Set as it is
SetAddNothing(set, ws) == set
SetDeleteNothing(set, ws) == set

\* Set.add(ws) and Set.delete(ws) on an insertion-ordered Set
SetAdd(set, ws) ==
  IF \E i \in 1..Len(set) : set[i] = ws THEN set ELSE Append(set, ws)
SetDelete(set, ws) == SelectSeq(set, LAMBDA x : x # ws)
Members(set) == {set[i] : i \in 1..Len(set)}

\* websocket.open(ws)
open(ws) ==
  LET roomId == wsData'[ws].roomId
      sockets == ensureRoomSockets(socketsByRoom, roomId)
      got == getRoomState(room_state, roomId)
  IN /\ socketsByRoom' = [sockets EXCEPT ![roomId] = SetAdd(@, ws)]
     /\ IF WriteThrows /\ roomId \notin DOMAIN room_state
        THEN \* the INSERT of getRoomState throws
             /\ room_state' = room_state
             /\ sendLog' = <<>>
             /\ kept' = FALSE
        ELSE /\ room_state' = got.db
             /\ sendLog' = Returned(<<[to |-> ws, payload |-> StateMessage(roomId, got.state)]>>)
             /\ kept' = SameFields(room_state, roomId, got.state)
     /\ seen' = Receive(sendLog')
     /\ UNCHANGED <<sendThrows, dbFails>>

\* fetch, /ws: requireAuth, then server.upgrade with data { roomId }, upon
\* which the runtime calls websocket.open
upgrade(ws, room, session) ==
  /\ wsData[ws].readyState = "new"
  /\ LET roomId == NullishCoalesce(room, Str("main")).s
     IN /\ last' = Call("fetch_ws", ws, roomId, NoFrame, session, Undefined,
                           IF session.ok THEN 101 ELSE 401)
        /\ IF ~session.ok
           THEN /\ sendLog' = <<>>
                /\ kept' = (roomId \in DOMAIN room_state)
                /\ UNCHANGED <<room_state, socketsByRoom, wsData, clock,
                               seen, sendThrows, dbFails>>
           ELSE /\ wsData' = [wsData EXCEPT ![ws] = [roomId |-> roomId, readyState |-> "open"]]
                /\ open(ws)
                /\ UNCHANGED clock

\* fetch, /ws, for a request whose session is given
fetch_ws(ws, room, session) ==
  /\ upgrade(ws, room, session)
  /\ UNCHANGED <<clientVars, authVars>>

\* websocket.close(ws)
close(ws) ==
  /\ wsData[ws].readyState = "open"
  /\ UNCHANGED <<clientVars, authVars>>
  /\ LET roomId == wsData[ws].roomId
     IN /\ last' = Call("close", ws, roomId, NoFrame, NoSession, Undefined, 0)
        /\ socketsByRoom' =
             IF roomId \in DOMAIN socketsByRoom
             THEN [socketsByRoom EXCEPT ![roomId] = SetDelete(@, ws)]
             ELSE socketsByRoom
  /\ wsData' = [wsData EXCEPT ![ws].readyState = "closed"]
  /\ sendLog' = <<>>
  /\ kept' = (wsData[ws].roomId \in DOMAIN room_state)
  /\ seen' = [seen EXCEPT ![ws] = NotSeen]
  /\ sendThrows' = sendThrows \ {ws}
  /\ UNCHANGED <<room_state, clock, dbFails>>

\* ["play", "pause", "seek", "rate", "sync"].includes(action)
Includes(array, x) == \E i \in DOMAIN array : array[i] = x

\* action === "play" ? 0 : 1
PausedUnlessPlay(action) == IF action = "play" THEN Num(0) ELSE Num(1)

\* action === "pause" ? 1 : action === "play" ? 0 : undefined
PausedOf(action) ==
  IF action = "pause" THEN Num(1) ELSE IF action = "play" THEN Num(0) ELSE Undefined

\* updates of an action that also name a video
ActionUpdatesWithVideo(frame) ==
  Updates(Str("b.mp4"), Undefined, PausedOf(frame.action), Undefined)

\* the updates an accepted action frame passes to updateRoomState
ActionUpdates(frame) ==
  LET position == Number(NullishCoalesce(frame.position, Num(0)))
      playbackRate == Number(NullishCoalesce(frame.playbackRate, Num(1)))
  IN Updates(Undefined,
             IF NumberIsFinite(position) THEN position ELSE Undefined,
             PausedOf(frame.action),
             IF NumberIsFinite(playbackRate) THEN playbackRate ELSE Undefined)

\* the test without the type of the message
AcceptedAnyType(frame) ==
  frame.json = "object" /\ Includes(ActionKinds, frame.action)

\* the test without the list of kinds
AcceptedAnyKind(frame) == frame.json = "object" /\ frame.type = "action"

\* whether websocket.message gets as far as updateRoomState with this frame
Accepted(frame) ==
  /\ frame.json = "object"
  /\ frame.type = "action"
  /\ Includes(ActionKinds, frame.action)

\* websocket.message(ws, message)
websocket_message(ws, frame) ==
  /\ wsData[ws].readyState = "open"
  /\ LET roomId == wsData[ws].roomId
         upd == updateRoomState(room_state, roomId, ActionUpdates(frame))
     IN /\ last' = Call("message", ws, roomId, frame, NoSession, Undefined, 0)
        /\ IF Accepted(frame) /\ ~WriteThrows
           THEN /\ room_state' = upd.db
                /\ sendLog' = broadcastRoom(socketsByRoom, roomId,
                                            StateMessage(roomId, upd.next))
           ELSE \* the frame is dropped, or updateRoomState throws
                /\ room_state' = room_state
                /\ sendLog' = <<>>
        /\ kept' = SameFields(room_state, roomId, room_state'[roomId])
  /\ seen' = Receive(sendLog')
  /\ UNCHANGED <<socketsByRoom, wsData, clock, sendThrows, dbFails>>

\* websocket.message, for a frame sent by any client
message(ws, frame) ==
  /\ websocket_message(ws, frame)
  /\ UNCHANGED <<clientVars, authVars>>

\* requireAuth(request): 401 without a session
requireAuth(session) ==
  IF ~session.ok THEN [ok |-> FALSE, status |-> 401] ELSE [ok |-> TRUE, status |-> 200]

\* an admin check that lets every session through
requireAdminAnySession(session) ==
  IF ~session.ok THEN [ok |-> FALSE, status |-> 401] ELSE [ok |-> TRUE, status |-> 200]

\* requireAdmin(request): 401 without a session, 403 without isAdmin
requireAdmin(session) ==
  LET auth == requireAuth(session)
  IN IF ~auth.ok THEN auth
     ELSE IF ~session.isAdmin THEN [ok |-> FALSE, status |-> 403]
     ELSE auth

\* set-video without the position reset
SetVideoUpdatesNoReset(videoPath) == Updates(videoPath, Undefined, Num(1), Undefined)

\* the updates /api/room/set-video passes to updateRoomState
SetVideoUpdates(videoPath) == Updates(videoPath, Num(0), Num(1), Undefined)

\* fetch, POST /api/room/set-video
set_video(session, bodyRoomId, bodyVideoPath) ==
  LET auth == requireAdmin(session)
      roomId == NullishCoalesce(bodyRoomId, Str("main")).s
      videoPath == NullishCoalesce(bodyVideoPath, Null)
      upd == updateRoomState(room_state, roomId, SetVideoUpdates(videoPath))
      calls == BroadcastCalls(socketsByRoom, roomId, StateMessage(roomId, upd.next))
      status == IF ~auth.ok THEN auth.status
                ELSE IF WriteThrows \/ Throws(calls) THEN 500
                ELSE 200
  IN /\ last' = Call("set-video", "", roomId, NoFrame, session, bodyVideoPath, status)
     /\ IF ~auth.ok
        THEN /\ room_state' = room_state
             /\ sendLog' = <<>>
             /\ kept' = (roomId \in DOMAIN room_state)
        ELSE IF WriteThrows
        THEN \* updateRoomState throws
             /\ room_state' = room_state
             /\ sendLog' = <<>>
             /\ kept' = (roomId \in DOMAIN room_state)
        ELSE /\ kept' = SameFields(room_state, roomId, upd.next)
             /\ room_state' = upd.db
             /\ sendLog' = broadcastRoom(socketsByRoom, roomId,
                                         StateMessage(roomId, upd.next))
     /\ seen' = Receive(sendLog')
     /\ UNCHANGED <<socketsByRoom, wsData, clock, sendThrows, dbFails>>

\* fetch, POST /api/room/set-video, for a request whose session is given
fetch_set_video(session, bodyRoomId, bodyVideoPath) ==
  /\ set_video(session, bodyRoomId, bodyVideoPath)
  /\ UNCHANGED <<clientVars, authVars>>

\* time passes between two handlers
Tick ==
  /\ clock < MaxClock
  /\ UNCHANGED <<clientVars, authVars>>
  /\ clock' = clock + 1
  /\ last' = Call("tick", "", "", NoFrame, NoSession, Undefined, 0)
  /\ sendLog' = <<>>
  /\ kept' = FALSE
  /\ UNCHANGED <<room_state, socketsByRoom, wsData, seen, sendThrows, dbFails>>

\* the send() of an open socket starts to throw
SocketFault(ws) ==
  /\ wsData[ws].readyState = "open"
  /\ UNCHANGED <<clientVars, authVars>>
  /\ ws \notin sendThrows
  /\ sendThrows' = sendThrows \cup {ws}
  /\ last' = Call("socket-fault", ws, wsData[ws].roomId, NoFrame, NoSession, Undefined, 0)
  /\ sendLog' = <<>>
  /\ kept' = FALSE
  /\ UNCHANGED <<room_state, socketsByRoom, wsData, clock, seen, dbFails>>

\* the write statements on the table start to throw, and stop throwing
StorageFault ==
  /\ ~dbFails
  /\ UNCHANGED <<clientVars, authVars>>
  /\ dbFails' = TRUE
  /\ last' = Call("storage-fault", "", "", NoFrame, NoSession, Undefined, 0)
  /\ sendLog' = <<>>
  /\ kept' = FALSE
  /\ UNCHANGED <<room_state, socketsByRoom, wsData, clock, seen, sendThrows>>
StorageRecovers ==
  /\ dbFails
  /\ UNCHANGED <<clientVars, authVars>>
  /\ dbFails' = FALSE
  /\ last' = Call("storage-recovers", "", "", NoFrame, NoSession, Undefined, 0)
  /\ sendLog' = <<>>
  /\ kept' = FALSE
  /\ UNCHANGED <<room_state, socketsByRoom, wsData, clock, seen, sendThrows>>

\* a restart whose database is made anew
RestartLosesRows ==
  /\ \E ws \in Channels : wsData[ws].readyState # "new"
  /\ UNCHANGED <<clientVars, authVars>>
  /\ socketsByRoom' = <<>>
  /\ wsData' = [ws \in Channels |->
                  IF wsData[ws].readyState = "open"
                  THEN [wsData[ws] EXCEPT !.readyState = "lost"]
                  ELSE wsData[ws]]
  /\ seen' = [ws \in Channels |-> IF wsData[ws].readyState = "open" THEN NotSeen ELSE seen[ws]]
  /\ sendThrows' = {}
  /\ room_state' = <<>>
  /\ last' = Call("restart", "", "", NoFrame, NoSession, Undefined, 0)
  /\ sendLog' = <<>>
  /\ kept' = FALSE
  /\ UNCHANGED <<clock, dbFails>>

\* The process stops and starts again: the module is evaluated anew, so
\* socketsByRoom is a new Map and the database file at DB_PATH is opened
\* with CREATE TABLE IF NOT EXISTS; the connections of the old process are
\* lost without their close handler having run.
Restart ==
  /\ \E ws \in Channels : wsData[ws].readyState # "new"
  /\ UNCHANGED <<clientVars, authVars>>
  /\ socketsByRoom' = <<>>
  /\ wsData' = [ws \in Channels |->
                  IF wsData[ws].readyState = "open"
                  THEN [wsData[ws] EXCEPT !.readyState = "lost"]
                  ELSE wsData[ws]]
  /\ seen' = [ws \in Channels |-> IF wsData[ws].readyState = "open" THEN NotSeen ELSE seen[ws]]
  /\ sendThrows' = {}
  /\ last' = Call("restart", "", "", NoFrame, NoSession, Undefined, 0)
  /\ sendLog' = <<>>
  /\ kept' = FALSE
  /\ UNCHANGED <<room_state, clock, dbFails>>

\* ------------------------------------------------------------------------
\* Accounts: users, invites and sessions
\* ------------------------------------------------------------------------

\* invites are created while fewer than MaxInvites exist, sessions while
\* fewer than MaxSessions were ever inserted
MaxInvites == 2
MaxSessions == 2

\* TEST_USERS and ADMIN_EMAILS
SeededEmails == {"admin@example.com"}

\* the email of a request body as it is sent; "" also stands for a missing one
EmailInputs == {"", "admin@example.com", "guest@example.com", " Guest@Example.com"}

\* (body.email ?? "").trim().toLowerCase()
TrimLower(raw) == IF raw = " Guest@Example.com" THEN "guest@example.com" ELSE raw

\* a token is modelled by the number of its row; 0 is a token of no row,
\* -1 the empty token
InviteTokens == -1 .. MaxInvites
Cookies == 0 .. MaxSessions

AuthCall(op, email, token, cookie, status) ==
  [op |-> op, email |-> email, token |-> token, cookie |-> cookie, status |-> status]

\* a lookup that finds a row for every email
FindUserAlways(email) == TRUE

\* an upsert that makes nobody an admin
upsertUserNotAdmin(email, isAdmin) == (email :> [is_admin |-> FALSE]) @@ users

\* a session lookup that does not look at expires_at
getSessionIgnoresExpiry(cookie) ==
  IF cookie \in DOMAIN sessions
  THEN [ok |-> TRUE, isAdmin |-> users[sessions[cookie].email].is_admin]
  ELSE [ok |-> FALSE, isAdmin |-> FALSE]

\* an accept that does not look at uses_remaining
AcceptStatusAnyUses(token, email) ==
  IF token = -1 \/ email = "" THEN 400
  ELSE IF token \notin DOMAIN invites THEN 404
  ELSE IF invites[token].email # Null /\ invites[token].email # Str(email) THEN 403
  ELSE 200

\* SELECT id FROM users WHERE email = ?
FindUser(email) == email \in DOMAIN users

\* INSERT INTO users ... ON CONFLICT(email) DO UPDATE SET is_admin
upsertUser(email, isAdmin) == (email :> [is_admin |-> isAdmin]) @@ users

\* seedUsers(): every TEST_USERS and ADMIN_EMAILS entry, as admin
seedUsers == [email \in SeededEmails |-> [is_admin |-> TRUE]]

\* getSession(request): the session of the cookie, none for an unknown or
\* an expired token
getSession(cookie) ==
  IF cookie \in DOMAIN sessions /\ ~sessions[cookie].expired
  THEN Session(users[sessions[cookie].email].is_admin)
  ELSE NoSession

\* the sessions table after getSession(request): an expired row is deleted
AfterGetSession(cookie) ==
  IF cookie \in DOMAIN sessions /\ sessions[cookie].expired
  THEN [t \in DOMAIN sessions \ {cookie} |-> sessions[t]]
  ELSE sessions

\* INSERT INTO sessions with a new randomToken(32)
InsertSession(table, email) ==
  table @@ ((sqlite_sequence + 1) :> [email |-> email, expired |-> FALSE])

\* the row of an invite created for an email: token, email, 1, null;
\* created_by and created_at are left out, nothing reads them
InviteRow(email) ==
  [email |-> Str(email), uses_remaining |-> 1, expires_at |-> Null]

\* POST /api/auth/login
fetch_login(raw) ==
  LET email == TrimLower(raw)
      status == IF email = "" THEN 400 ELSE IF ~FindUser(email) THEN 403 ELSE 200
  IN /\ status = 200 => sqlite_sequence < MaxSessions
     /\ IF status = 200
        THEN /\ users' = [users EXCEPT ![email].is_admin = TRUE]
             /\ sessions' = InsertSession(sessions, email)
             /\ sqlite_sequence' = sqlite_sequence + 1
        ELSE UNCHANGED <<users, sessions, sqlite_sequence>>
     /\ lastAuth' = AuthCall("login", email, 0, 0, status)
     /\ UNCHANGED invites
     /\ UNCHANGED <<hubVars, clientVars, wsUserId>>

\* POST /api/auth/logout
fetch_logout(cookie) ==
  LET session == getSession(cookie)
  IN /\ sessions' =
          IF session.ok
          THEN [t \in {u \in DOMAIN sessions :
                         sessions[u].email # sessions[cookie].email} |-> sessions[t]]
          ELSE AfterGetSession(cookie)
     /\ lastAuth' = AuthCall("logout", "", 0, cookie, 200)
     /\ UNCHANGED <<users, invites, sqlite_sequence>>
     /\ UNCHANGED <<hubVars, clientVars, wsUserId>>

\* POST /api/invites/create
fetch_invites_create(cookie, raw) ==
  LET auth == requireAdmin(getSession(cookie))
      email == TrimLower(raw)
      status == IF ~auth.ok THEN auth.status ELSE IF email = "" THEN 400 ELSE 200
      token == Cardinality(DOMAIN invites) + 1
  IN /\ status = 200 => Cardinality(DOMAIN invites) < MaxInvites
     /\ invites' = IF status = 200
                   THEN invites @@ (token :> InviteRow(email))
                   ELSE invites
     /\ sessions' = AfterGetSession(cookie)
     /\ lastAuth' = AuthCall("invites/create", email, IF status = 200 THEN token ELSE 0,
                             cookie, status)
     /\ UNCHANGED <<users, sqlite_sequence>>
     /\ UNCHANGED <<hubVars, clientVars, wsUserId>>

\* tools/invite.ts, for one email of the command line
invite_cli(raw) ==
  LET email == TrimLower(raw)
      token == Cardinality(DOMAIN invites) + 1
  IN /\ email # ""
     /\ Cardinality(DOMAIN invites) < MaxInvites
     /\ invites' = invites @@ (token :> InviteRow(email))
     /\ lastAuth' = AuthCall("invite_cli", email, token, 0, 0)
     /\ UNCHANGED <<users, sessions, sqlite_sequence>>
     /\ UNCHANGED <<hubVars, clientVars, wsUserId>>

\* the answer of /api/invites/accept to a token and an email
AcceptStatus(token, email) ==
  IF token = -1 \/ email = "" THEN 400
  ELSE IF token \notin DOMAIN invites THEN 404
  ELSE IF invites[token].email # Null /\ invites[token].email # Str(email) THEN 403
  ELSE IF invites[token].expires_at # Null /\ invites[token].expires_at.v < clock THEN 403
  ELSE IF invites[token].uses_remaining <= 0 THEN 403
  ELSE 200

\* POST /api/invites/accept
fetch_invites_accept(token, raw) ==
  LET email == TrimLower(raw)
      status == AcceptStatus(token, email)
  IN /\ status = 200 => sqlite_sequence < MaxSessions
     /\ IF status = 200
        THEN /\ users' = upsertUser(email, TRUE)
             /\ invites' = [invites EXCEPT ![token].uses_remaining = @ - 1]
             /\ sessions' = InsertSession(sessions, email)
             /\ sqlite_sequence' = sqlite_sequence + 1
        ELSE UNCHANGED <<users, invites, sessions, sqlite_sequence>>
     /\ lastAuth' = AuthCall("invites/accept", email, token, 0, status)
     /\ UNCHANGED <<hubVars, clientVars, wsUserId>>

\* the expires_at of a session passes
SessionExpires(cookie) ==
  /\ cookie \in DOMAIN sessions
  /\ ~sessions[cookie].expired
  /\ sessions' = [sessions EXCEPT ![cookie].expired = TRUE]
  /\ lastAuth' = AuthCall("expire", sessions[cookie].email, 0, cookie, 0)
  /\ UNCHANGED <<users, invites, sqlite_sequence>>
  /\ UNCHANGED <<hubVars, clientVars, wsUserId>>

\* fetch, /ws, for a request with a cookie: getSession reads the sessions
\* table, and the user of the session goes into ws.data
fetch_ws_request(ws, room, cookie) ==
  /\ upgrade(ws, room, getSession(cookie))
  /\ sessions' = AfterGetSession(cookie)
  /\ wsUserId' = IF getSession(cookie).ok
                 THEN [wsUserId EXCEPT ![ws] = sessions[cookie].email]
                 ELSE wsUserId
  /\ UNCHANGED <<users, invites, sqlite_sequence, lastAuth>>
  /\ UNCHANGED clientVars

\* fetch, POST /api/room/set-video, for a request with a cookie
fetch_set_video_request(cookie, bodyRoomId, bodyVideoPath) ==
  /\ set_video(getSession(cookie), bodyRoomId, bodyVideoPath)
  /\ sessions' = AfterGetSession(cookie)
  /\ UNCHANGED <<users, invites, sqlite_sequence, wsUserId, lastAuth>>
  /\ UNCHANGED clientVars

\* ------------------------------------------------------------------------
\* Browser client (public/app.js).  Times and positions are in ms.
\* ------------------------------------------------------------------------

\* Date.now() + 600: how long media events are ignored after applyState
EchoWindowMs == 600
\* diff > 0.4: the drift beyond which applyState seeks
DriftToleranceMs == 400

\* the data of a state message
StateData(videoPath, position, paused, playbackRate, serverTime) ==
  [videoPath |-> videoPath, position |-> position, paused |-> paused,
   playbackRate |-> playbackRate, serverTime |-> serverTime]

\* The state messages the hub sends to the page at browser time t.  The hub
\* sends any finite playbackRate it was given (0 and 100 among them); its
\* clock is behind the browser's by the time the message took, or ahead of it.
MessagePositions == {10000}
MessageRates == {0, 1, 100}
ServerLags == {-300, 2000}
StateMessages(t) ==
  {StateData(videoPath, position, paused, playbackRate, t - lag) :
     videoPath \in {Null, Str("a.mp4")}, position \in MessagePositions,
     paused \in BOOLEAN, playbackRate \in MessageRates, lag \in ServerLags}

\* a media event queued on the element: its kind and what caused it, the
\* user ("user") or a call of applyState ("remote")
MediaEvent(kind, origin) == [kind |-> kind, origin |-> origin]

\* The media element as the pair of its attributes and its queued events.
Media(el, q) == [el |-> el, q |-> q]

\* the playback rates the user agent supports (Chrome: 0 and 0.0625 to 16)
SupportedRate(rate) == rate \in 0..16

\* el.videoPlayer.playbackRate = rate: ratechange is queued when it changes
SetPlaybackRate(m, rate, origin) ==
  Media([m.el EXCEPT !.playbackRate = rate],
        IF rate # m.el.playbackRate
        THEN m.q \cup {MediaEvent("ratechange", origin)} ELSE m.q)

\* el.videoPlayer.currentTime = t: the element seeks, seeked is queued
SetCurrentTime(m, t, origin) ==
  Media([m.el EXCEPT !.currentTime = t, !.seeking = TRUE],
        m.q \cup {MediaEvent("seeked", origin)})

\* el.videoPlayer.pause() and play(): the event is queued when paused changes
Pause(m, origin) ==
  IF m.el.paused THEN m
  ELSE Media([m.el EXCEPT !.paused = TRUE], m.q \cup {MediaEvent("pause", origin)})
Play(m, origin) ==
  IF ~m.el.paused THEN m
  ELSE Media([m.el EXCEPT !.paused = FALSE], m.q \cup {MediaEvent("play", origin)})

\* el.videoPlayer.src = ... and removeAttribute("src") with load(): the
\* element is reset and its queued events are dropped
Load(m) ==
  Media([currentTime |-> 0, paused |-> TRUE, playbackRate |-> 1, seeking |-> FALSE], {})

\* an absolute value that keeps the sign
MathAbsKeepsSign(x) == x

\* Math.max(0, x) and Math.abs(x)
MathMax0(x) == IF x > 0 THEN x ELSE 0
MathAbs(x) == IF x < 0 THEN -x ELSE x

\* a handler of the page: which one, and its inputs
AppCall(op, data, threw, kind, origin) ==
  [op |-> op, data |-> data, threw |-> threw, kind |-> kind, origin |-> origin]
NoData == StateData(Null, 0, TRUE, 1, 0)

\* the element after applyState's video switch, when the video changes
AfterSwitch(data) ==
  IF data.videoPath # appState.currentVideo
  THEN Load(Media(videoPlayer, pending))
  ELSE Media(videoPlayer, pending)

\* playbackRate || 1
RateOrOne(playbackRate) == IF playbackRate # 0 THEN playbackRate ELSE 1

\* const delta = Math.max(0, (Date.now() - (serverTime || Date.now())) / 1000)
Delta(serverTime) == MathMax0(now - (IF serverTime # 0 THEN serverTime ELSE now))

\* const targetTime = paused ? position : position + delta * el.videoPlayer.playbackRate
TargetTime(data, el) ==
  IF data.paused THEN data.position
  ELSE data.position + Delta(data.serverTime) * el.playbackRate

\* the element after the part of applyState that follows the rate
AfterSync(data, m) ==
  IF data.videoPath = Null THEN m
  ELSE LET targetTime == TargetTime(data, m.el)
           diff == MathAbs(m.el.currentTime - targetTime)
           m3 == IF diff > DriftToleranceMs
                 THEN SetCurrentTime(m, targetTime, "remote") ELSE m
       IN IF data.paused THEN Pause(m3, "remote") ELSE Play(m3, "remote")

\* ---- subtitles of the page ----
\* subtitles.request is the video of the /api/subtitles request in flight
\* (Null: none); subtitles.options is the video whose tracks subtitleSelect
\* lists after "Off" (Null: only "Off"); subtitles.track is the video whose
\* track the <track> element of the player shows (Null: none).

\* clearSubtitles(): the track is removed and the list is reset to "Off"
clearSubtitles(sub) == [sub EXCEPT !.options = Null, !.track = Null]

\* loadSubtitles(videoPath) up to its await: it returns at once while another
\* call is loading, or when videoPath was loaded less than DebounceMs ago
loadSubtitles(sub, videoPath) ==
  IF sub.subtitleLoading THEN sub
  ELSE IF /\ sub.subtitleLastVideo = videoPath
          /\ now - sub.subtitleLastLoadedAt < DebounceMs
       THEN sub
  ELSE IF videoPath = Null THEN sub
  ELSE [sub EXCEPT !.subtitleLoading = TRUE, !.request = videoPath]

\* the branch of applyState taken when videoPath differs from
\* state.currentVideo: clearSubtitles(), and loadSubtitles(videoPath) for a
\* video
SwitchSubtitles(videoPath) ==
  IF videoPath = appState.currentVideo THEN subtitles
  ELSE IF videoPath = Null THEN clearSubtitles(subtitles)
  ELSE loadSubtitles(clearSubtitles(subtitles), videoPath)

\* the "message" listener of the socket with a state message: applyState(data).
\* threw is whether the playbackRate setter throws NotSupportedError, which
\* a user agent may do for a rate it does not support.
onState(data, threw) ==
  /\ appState.wsOpen
  /\ Cardinality(pending) < MaxPending
  /\ threw => ~SupportedRate(RateOrOne(data.playbackRate))
  /\ LET m1 == AfterSwitch(data)
         m2 == SetPlaybackRate(m1, RateOrOne(data.playbackRate), "remote")
         m4 == AfterSync(data, m2)
     IN IF threw
        THEN /\ appState' = [appState EXCEPT !.applyingRemote = TRUE,
                                             !.currentVideo = data.videoPath]
             /\ videoPlayer' = m1.el
             /\ pending' = m1.q
        ELSE /\ appState' = [appState EXCEPT !.applyingRemote = FALSE,
                                             !.currentVideo = data.videoPath,
                                             !.ignoreEventsUntil = now + EchoWindowMs]
             /\ videoPlayer' = m4.el
             /\ pending' = m4.q
  /\ outbox' = <<>>
  /\ lastApp' = AppCall("applyState", data, threw, "", "")
  /\ subtitles' = SwitchSubtitles(data.videoPath)
  /\ UNCHANGED now

\* applyState(data), for a state message of any content
applyState(data, threw) ==
  /\ onState(data, threw)
  /\ UNCHANGED <<hubVars, authVars>>

\* the action kind each media event is sent as
ActionOf(kind) ==
  CASE kind = "play" -> "play"
    [] kind = "pause" -> "pause"
    [] kind = "seeked" -> "seek"
    [] kind = "ratechange" -> "rate"

\* a sendAction that keeps to the guards of the listeners
sendActionGuarded(action, el) ==
  IF ~appState.wsOpen \/ appState.applyingRemote \/ now < appState.ignoreEventsUntil
  THEN <<>>
  ELSE <<[type |-> "action", action |-> action,
          position |-> el.currentTime, playbackRate |-> el.playbackRate]>>

\* sendAction(action): the frames it sends on state.ws
sendAction(action, el) ==
  IF ~appState.wsOpen THEN <<>>
  ELSE <<[type |-> "action", action |-> action,
          position |-> el.currentTime, playbackRate |-> el.playbackRate]>>

\* listeners that look at applyingRemote only
SwallowedWhileApplyingOnly(kind, el) ==
  \/ appState.applyingRemote
  \/ kind = "pause" /\ el.seeking

\* whether the listener of a media event returns before sendAction
Swallowed(kind, el) ==
  \/ appState.applyingRemote
  \/ now < appState.ignoreEventsUntil
  \/ kind = "pause" /\ el.seeking

\* The element dispatches a queued event and its listener runs.  The seek
\* is over when its seeked event is dispatched.
dispatchEvent(e) ==
  /\ e \in pending
  /\ LET rest == pending \ {e}
         el == IF e.kind = "seeked" /\ ~\E other \in rest : other.kind = "seeked"
               THEN [videoPlayer EXCEPT !.seeking = FALSE] ELSE videoPlayer
     IN /\ pending' = rest
        /\ videoPlayer' = el
        /\ outbox' = IF Swallowed(e.kind, el) THEN <<>> ELSE sendAction(ActionOf(e.kind), el)
  /\ lastApp' = AppCall("event", NoData, FALSE, e.kind, e.origin)
  /\ UNCHANGED <<appState, now>>
  /\ UNCHANGED subtitles

\* a queued event is dispatched; what the listener sends is in outbox
mediaEvent(e) ==
  /\ dispatchEvent(e)
  /\ UNCHANGED <<hubVars, authVars>>

\* The user works the controls of the element: no code of the page runs,
\* the element changes and queues its events.
UserSeekTargets == {9000, 11900}
UserRates == {2}
userInput(kind, value) ==
  /\ appState.currentVideo # Null
  /\ Cardinality(pending) < MaxPending
  /\ LET m == Media(videoPlayer, pending)
         after == CASE kind = "play" -> Play(m, "user")
                    [] kind = "pause" -> Pause(m, "user")
                    [] kind = "seeked" -> SetCurrentTime(m, value, "user")
                    [] kind = "ratechange" -> SetPlaybackRate(m, value, "user")
     IN /\ after # m
        /\ videoPlayer' = after.el
        /\ pending' = after.q
  /\ outbox' = <<>>
  /\ lastApp' = AppCall("user", NoData, FALSE, kind, "user")
  /\ UNCHANGED <<appState, now>>
  /\ UNCHANGED subtitles
  /\ UNCHANGED <<hubVars, authVars>>

\* seekForward is clicked while the position is at most MaxSeekMs - 10 s
MaxSeekMs == 30000
SeekStepMs == 10000

\* A click on seekBack or seekForward: currentTime is assigned and
\* sendAction("seek") is called.  The origin of the seeked event it queues
\* tells whether that call found the socket open.
seekClick(t, button) ==
  /\ appState.currentVideo # Null
  /\ Cardinality(pending) < MaxPending
  /\ LET origin == IF appState.wsOpen THEN "button" ELSE "button, socket closed"
         after == SetCurrentTime(Media(videoPlayer, pending), t, origin)
     IN /\ videoPlayer' = after.el
        /\ pending' = after.q
        /\ outbox' = sendAction("seek", after.el)
  /\ lastApp' = AppCall("click", NoData, FALSE, button, "user")
  /\ UNCHANGED <<appState, now>>
  /\ UNCHANGED subtitles
  /\ UNCHANGED <<hubVars, authVars>>

seekBack == seekClick(MathMax0(videoPlayer.currentTime - SeekStepMs), "seekBack")

seekForward ==
  /\ videoPlayer.currentTime + SeekStepMs <= MaxSeekMs
  /\ seekClick(videoPlayer.currentTime + SeekStepMs, "seekForward")

\* state.ws opens and closes
socketOpens ==
  /\ ~appState.wsOpen
  /\ appState' = [appState EXCEPT !.wsOpen = TRUE]
  /\ outbox' = <<>>
  /\ lastApp' = AppCall("ws:open", NoData, FALSE, "", "")
  /\ UNCHANGED <<videoPlayer, pending, now>>
  /\ UNCHANGED subtitles
  /\ UNCHANGED <<hubVars, authVars>>
socketCloses ==
  /\ appState.wsOpen
  /\ appState' = [appState EXCEPT !.wsOpen = FALSE]
  /\ outbox' = <<>>
  /\ lastApp' = AppCall("ws:close", NoData, FALSE, "", "")
  /\ UNCHANGED <<videoPlayer, pending, now>>
  /\ UNCHANGED subtitles
  /\ UNCHANGED <<hubVars, authVars>>

\* 300 ms pass in the browser
clientTick ==
  /\ now < 3000 + 300 * MaxSteps
  /\ now' = now + 300
  /\ outbox' = <<>>
  /\ lastApp' = AppCall("tick", NoData, FALSE, "", "")
  /\ UNCHANGED <<appState, videoPlayer, pending>>
  /\ UNCHANGED subtitles
  /\ UNCHANGED <<hubVars, authVars>>

\* the response of GET /api/subtitles?video=... reaches loadSubtitles, which
\* resumes after its await. result is "tracks" (the video has tracks),
\* "empty" (it has none) or "error" (fetchJSON threw). With tracks the list
\* is rebuilt from them and applyPreferredSubtitle() shows one of them; with
\* none the list is rebuilt as "Off" alone and the track shown is left as it
\* is; on an error the list is left as it is. The flags are set in all three.
subtitlesResponse(result) ==
  /\ subtitles.request # Null
  /\ subtitles' = [subtitles EXCEPT
       !.options = IF result = "tracks" THEN subtitles.request
                   ELSE IF result = "empty" THEN Null ELSE @,
       !.track = IF result = "tracks" THEN subtitles.request ELSE @,
       !.subtitleLoading = FALSE,
       !.subtitleLastLoadedAt = now,
       !.subtitleLastVideo = subtitles.request,
       !.request = Null]
  /\ outbox' = <<>>
  /\ lastApp' = AppCall("subtitles", NoData, FALSE, result, "")
  /\ UNCHANGED <<appState, videoPlayer, pending, now>>
  /\ UNCHANGED <<hubVars, authVars>>

\* primeRoomState(): the response of GET /api/room/state, asked for once when
\* the session is loaded, arrives with the video the room had when the
\* server answered: loadSubtitles(data.videoPath) for a video
primeRoomState(videoPath) ==
  /\ ~subtitles.primed
  /\ subtitles' = [(IF videoPath # Null THEN loadSubtitles(subtitles, videoPath)
                    ELSE subtitles) EXCEPT !.primed = TRUE]
  /\ outbox' = <<>>
  /\ lastApp' = AppCall("primeRoomState", NoData, FALSE, "", "")
  /\ UNCHANGED <<appState, videoPlayer, pending, now>>
  /\ UNCHANGED <<hubVars, authVars>>

\* DebounceMs pass with nothing happening on the page
clientIdle ==
  /\ now < 3000 + DebounceMs
  /\ now' = now + DebounceMs
  /\ outbox' = <<>>
  /\ lastApp' = AppCall("idle", NoData, FALSE, "", "")
  /\ UNCHANGED <<appState, videoPlayer, pending, subtitles>>
  /\ UNCHANGED <<hubVars, authVars>>

\* ------------------------------------------------------------------------
\* Specification
\* ------------------------------------------------------------------------

\* the room query parameter of /ws and the roomId key of a set-video body
RoomParams == {Null} \cup {Str(r) : r \in RoomIds}
BodyRoomIds == {Undefined} \cup {Str(r) : r \in RoomIds}

\* Requests.  A request that fails the authentication check is answered
\* before its body is read, so one body stands for all of them.
WsRequests ==
  {[room |-> room, session |-> session] :
     room \in RoomParams, session \in {Session(FALSE), Session(TRUE)}}
  \cup {[room |-> Null, session |-> NoSession]}
SetVideoRequests ==
  {[session |-> Session(TRUE), roomId |-> roomId, videoPath |-> videoPath] :
     roomId \in BodyRoomIds, videoPath \in VideoPathFields}
  \cup {[session |-> session, roomId |-> Undefined, videoPath |-> Null] :
          session \in {NoSession, Session(FALSE)}}

Init ==
  /\ room_state = <<>>
  /\ socketsByRoom = <<>>
  /\ wsData = [ws \in Channels |-> [roomId |-> "", readyState |-> "new"]]
  /\ clock = 0
  /\ sendLog = <<>>
  /\ last = Call("init", "", "", NoFrame, NoSession, Undefined, 0)
  /\ kept = FALSE
  /\ seen = [ws \in Channels |-> NotSeen]
  /\ sendThrows = {}
  /\ dbFails = FALSE
  /\ appState = [applyingRemote |-> FALSE, currentVideo |-> Null,
                 ignoreEventsUntil |-> 0, wsOpen |-> FALSE]
  /\ videoPlayer = [currentTime |-> 0, paused |-> TRUE, playbackRate |-> 1,
                    seeking |-> FALSE]
  /\ pending = {}
  /\ now = 3000
  /\ outbox = <<>>
  /\ lastApp = AppCall("init", NoData, FALSE, "", "")
  /\ subtitles = [subtitleLoading |-> FALSE, subtitleLastVideo |-> Null,
                  subtitleLastLoadedAt |-> 0, request |-> Null,
                  options |-> Null, track |-> Null, primed |-> FALSE]
  /\ users = seedUsers
  /\ invites = <<>>
  /\ sessions = <<>>
  /\ sqlite_sequence = 0
  /\ wsUserId = [ws \in Channels |-> ""]
  /\ lastAuth = AuthCall("init", "", 0, 0, 0)

Next ==
  \/ \E ws \in Channels, request \in WsRequests :
       fetch_ws(ws, request.room, request.session)
  \/ \E ws \in Channels : close(ws)
  \/ \E ws \in Channels, frame \in Frames : message(ws, frame)
  \/ \E request \in SetVideoRequests :
       fetch_set_video(request.session, request.roomId, request.videoPath)
  \/ Tick

Spec == Init /\ [][Next]_vars

\* Two rooms.  The /ws requests are those of a signed-in user, set-video
\* comes from every kind of caller, and the frames are few: a play, a seek,
\* and one frame that is dropped.
TwoRooms == {"main", "den"}
RoomFrames ==
  {Frame("object", "action", "play", Undefined, Undefined),
   Frame("object", "action", "seek", Num(2), Num(2)),
   Frame("null", "", "", Undefined, Undefined)}

RoomsNext ==
  \/ \E ws \in Channels, roomId \in TwoRooms :
       fetch_ws(ws, Str(roomId), Session(FALSE))
  \/ \E ws \in Channels : close(ws)
  \/ \E ws \in Channels, frame \in RoomFrames : message(ws, frame)
  \/ \E roomId \in TwoRooms, session \in {NoSession, Session(FALSE), Session(TRUE)} :
       fetch_set_video(session, Str(roomId), Str("a.mp4"))
  \/ Tick

SpecRooms == Init /\ [][RoomsNext]_vars

\* Two rooms and restarts of the process.
RestartNext == RoomsNext \/ Restart

SpecRestart == Init /\ [][RestartNext]_vars

\* One browser: the state messages that reach it, the events of its media
\* element, its user and its clock.
ClientNext ==
  \/ \E data \in StateMessages(now), threw \in BOOLEAN : applyState(data, threw)
  \/ \E e \in pending : mediaEvent(e)
  \/ \E kind \in {"play", "pause"} : userInput(kind, 0)
  \/ \E value \in UserSeekTargets : userInput("seeked", value)
  \/ \E value \in UserRates : userInput("ratechange", value)
  \/ socketOpens
  \/ socketCloses
  \/ clientTick

SpecClient == Init /\ [][ClientNext]_vars

\* The accounts: logins, invites and their acceptance, logouts and expiry.
AuthNext ==
  \/ \E raw \in EmailInputs : fetch_login(raw)
  \/ \E cookie \in Cookies : fetch_logout(cookie)
  \/ \E cookie \in Cookies, raw \in EmailInputs : fetch_invites_create(cookie, raw)
  \/ \E raw \in EmailInputs : invite_cli(raw)
  \/ \E token \in InviteTokens, raw \in EmailInputs : fetch_invites_accept(token, raw)
  \/ \E cookie \in Cookies : SessionExpires(cookie)

SpecAuth == Init /\ [][AuthNext]_vars

\* One room and the accounts: the sessions of the seeded user come and go
\* while its channels are open.
SessionFrames ==
  {Frame("object", "action", "play", Undefined, Undefined),
   Frame("object", "action", "seek", Num(2), Num(2))}

SessionsNext ==
  \/ fetch_login("admin@example.com")
  \/ \E cookie \in Cookies : fetch_logout(cookie)
  \/ \E cookie \in Cookies : SessionExpires(cookie)
  \/ \E ws \in Channels, cookie \in Cookies : fetch_ws_request(ws, Null, cookie)
  \/ \E ws \in Channels : close(ws)
  \/ \E ws \in Channels, frame \in SessionFrames : message(ws, frame)
  \/ \E cookie \in Cookies : fetch_set_video_request(cookie, Undefined, Str("a.mp4"))
  \/ Tick

SpecSessions == Init /\ [][SessionsNext]_vars

\* The accounts and the admin route: a guest is invited, accepts and logs
\* in, sessions end, and every cookie is tried on set-video.
AdminNext ==
  \/ \E raw \in {"admin@example.com", "guest@example.com"} : fetch_login(raw)
  \/ invite_cli("guest@example.com")
  \/ \E token \in 1 .. MaxInvites : fetch_invites_accept(token, "guest@example.com")
  \/ \E cookie \in Cookies : fetch_logout(cookie)
  \/ \E cookie \in Cookies : SessionExpires(cookie)
  \/ \E cookie \in Cookies : fetch_set_video_request(cookie, Undefined, Str("a.mp4"))

SpecAdmin == Init /\ [][AdminNext]_vars

\* One browser whose user clicks the seek buttons while state messages for
\* one video arrive.
ButtonsNext ==
  \/ \E paused \in BOOLEAN :
       applyState(StateData(Str("a.mp4"), 10000, paused, 1, now - 2000), FALSE)
  \/ \E e \in pending : mediaEvent(e)
  \/ seekBack
  \/ seekForward
  \/ socketOpens
  \/ socketCloses
  \/ clientTick

SpecButtons == Init /\ [][ButtonsNext]_vars

\* the page with two videos and their subtitles: state messages that switch
\* between them, the responses of the subtitle requests, the room state
\* asked for at startup, and time
SubtitleVideos == {Null, Str("a.mp4"), Str("b.mp4")}

SubtitlesNext ==
  \/ socketOpens
  \/ \E v \in SubtitleVideos : applyState(StateData(v, 0, TRUE, 1, now), FALSE)
  \/ \E result \in {"tracks", "empty", "error"} : subtitlesResponse(result)
  \/ \E v \in SubtitleVideos : primeRoomState(v)
  \/ clientIdle

SpecSubtitles == Init /\ [][SubtitlesNext]_vars

\* One page and the hub together.  The page is socket "c1" of room "main";
\* its user is an admin.  A frame the page sends is handled by the hub in
\* the step that sends it, and a state message the hub sends to the page is
\* the next thing the hub or a listener of the page handles.  Positions are
\* kept in ms on both sides (the hub stores the number it is given), and
\* the hub's Date.now() at a send is the browser's at the delivery.
Undelivered == \E i \in 1..Len(sendLog) : sendLog[i].to = "c1"

\* the frame websocket.message parses from what sendAction sent
FrameOf(sent) ==
  Frame("object", sent.type, sent.action, Num(sent.position), Num(sent.playbackRate))

\* the data of a state message as the page reads it
DataOf(payload) ==
  StateData(payload.data.videoPath, payload.data.position.v, payload.data.paused,
            payload.data.playbackRate.v, now)

\* the page connects: GET /ws is upgraded and websocket.open sends the state
syncConnect == fetch_ws("c1", Null, Session(TRUE))

\* the "open" event of state.ws, once the upgrade is done
syncOpens ==
  /\ wsData["c1"].readyState = "open"
  /\ socketOpens

\* the "message" listener of state.ws runs with the state message sent
syncDeliver ==
  /\ Undelivered
  /\ onState(DataOf(sendLog[1].payload), FALSE)
  /\ sendLog' = <<>>
  /\ UNCHANGED <<room_state, socketsByRoom, wsData, clock, last, kept, seen,
                 sendThrows, dbFails>>
  /\ UNCHANGED authVars

\* a queued media event is dispatched, and the hub handles what the
\* listener sent
syncEvent(e) ==
  /\ ~Undelivered
  /\ dispatchEvent(e)
  /\ IF outbox' = <<>>
     THEN UNCHANGED hubVars
     ELSE websocket_message("c1", FrameOf(outbox'[1]))
  /\ UNCHANGED authVars

\* the page's user picks the video: POST /api/room/set-video
syncSetVideo ==
  /\ ~Undelivered
  /\ fetch_set_video(Session(TRUE), Undefined, Str("a.mp4"))

SyncNext ==
  \/ syncConnect
  \/ syncOpens
  \/ syncDeliver
  \/ \E e \in pending : syncEvent(e)
  \/ syncSetVideo
  \/ \E kind \in {"play", "pause"} : userInput(kind, 0)
  \/ \E value \in UserSeekTargets : userInput("seeked", value)
  \/ \E value \in UserRates : userInput("ratechange", value)
  \/ clientTick

SpecSync == Init /\ [][SyncNext]_vars

\* One room, in which a send or a write statement may throw.
FaultsNext ==
  \/ \E ws \in Channels : fetch_ws(ws, Null, Session(TRUE))
  \/ \E ws \in Channels : close(ws)
  \/ \E ws \in Channels, frame \in RoomFrames : message(ws, frame)
  \/ fetch_set_video(Session(TRUE), Undefined, Str("a.mp4"))
  \/ \E ws \in Channels : SocketFault(ws)
  \/ StorageFault
  \/ StorageRecovers
  \/ Tick

SpecFaults == Init /\ [][FaultsNext]_vars

\* ------------------------------------------------------------------------
\* Vocabulary of the properties
\* ------------------------------------------------------------------------

KnownKinds == {"play", "pause", "seek", "rate", "sync"}

\* the stored RoomState of a room
Row(roomId) == room_state[roomId]

\* the channels registered in a room
Registered(roomId) ==
  IF roomId \in DOMAIN socketsByRoom THEN Members(socketsByRoom[roomId]) ELSE {}

\* call is an action message of a known kind, resp. of an unknown kind
IsAction(call) ==
  call.op = "message" /\ call.frame.json = "object" /\ call.frame.type = "action"
AcceptedAction(call) == IsAction(call) /\ call.frame.action \in KnownKinds
UnknownAction(call) == IsAction(call) /\ call.frame.action \notin KnownKinds

\* call is a set-video request that passed the admin check
SetVideoDone(call) == call.op = "set-video" /\ call.status = 200

\* payload is a state message holding exactly the fields of row
Carries(payload, row) ==
  /\ payload.type = "state"
  /\ payload.data.roomId = row.room_id
  /\ payload.data.videoPath = row.video_path
  /\ payload.data.position = row.position
  /\ payload.data.paused = (row.paused = Num(1))
  /\ payload.data.playbackRate = row.playback_rate
  /\ payload.data.updatedAt = row.updated_at

\* the last handler sent one state message holding the stored row of roomId
\* to each channel registered in roomId, and nothing to any other channel
BroadcastToRoom(roomId) ==
  /\ \A ws \in Channels :
       Cardinality({i \in 1..Len(sendLog) : sendLog[i].to = ws})
         = IF ws \in Registered(roomId) THEN 1 ELSE 0
  /\ \A i \in 1..Len(sendLog) : Carries(sendLog[i].payload, Row(roomId))

\* ------------------------------------------------------------------------
\* C1, C2: set-video
\* ------------------------------------------------------------------------

\* C1 (as claimed): after an admitted set-video whose body gives videoPath
\* as a path or as null, the stored videoPath is the submitted value, null
\* included, and every state message of the broadcast carries it.
C1_SetVideoStoresSubmittedPath ==
  (SetVideoDone(last) /\ last.videoPath.t \in {"string", "null"}) =>
    /\ Row(last.roomId).video_path = last.videoPath
    /\ \A i \in 1..Len(sendLog) :
         sendLog[i].payload.data.videoPath = last.videoPath

\* C2: an admitted set-video with a non-null videoPath leaves the room at
\* position 0 and paused, and sends one state message holding that row to
\* every channel registered in the room.
C2_SetVideoResets ==
  (SetVideoDone(last) /\ last.videoPath.t = "string") =>
    /\ Row(last.roomId).position = Num(0)
    /\ Row(last.roomId).paused = Num(1)
    /\ Row(last.roomId).video_path = last.videoPath
    /\ BroadcastToRoom(last.roomId)
    /\ \A i \in 1..Len(sendLog) :
         /\ sendLog[i].payload.data.position = Num(0)
         /\ sendLog[i].payload.data.paused = TRUE

\* C2 witness: a set-video that changed the playback fields of a room with
\* two registered channels, both of which were sent the reset state.
C2_Witness ==
  /\ SetVideoDone(last) /\ last.videoPath.t = "string"
  /\ ~kept
  /\ Cardinality(Registered(last.roomId)) = 2
  /\ Len(sendLog) = 2

\* ------------------------------------------------------------------------
\* C3 - C10: actions
\* ------------------------------------------------------------------------

\* field values that are no finite number although the key is present with
\* a non-null value: 1e999 (Infinity after JSON.parse) and non-numeric text
NonFiniteFields == {Infinity, NaN, Str("abc")}

\* C3 (as claimed): an accepted action whose position is no finite number
\* (key absent or null included) leaves the stored position as it was, and
\* likewise for playbackRate.  Stated for rows that satisfy the data model
\* (position >= 0, playbackRate > 0) before the action.
C3_NonNumberFieldsKeepPrior ==
  [][(/\ AcceptedAction(last')
      /\ room_state[last'.roomId].position.v >= 0
      /\ room_state[last'.roomId].playback_rate.v > 0) =>
       LET roomId == last'.roomId
       IN /\ last'.frame.position.t # "number" =>
               room_state'[roomId].position = room_state[roomId].position
          /\ last'.frame.playbackRate.t # "number" =>
               room_state'[roomId].playback_rate = room_state[roomId].playback_rate]_vars

\* C4 (as claimed): every stored row has position >= 0.
C4_PositionNonNegative ==
  \A roomId \in DOMAIN room_state : Row(roomId).position.v >= 0

\* C5 (as claimed): every stored row has playbackRate > 0.
C5_PlaybackRatePositive ==
  \A roomId \in DOMAIN room_state : Row(roomId).playback_rate.v > 0

\* C6: an accepted action maps paused by kind only: pause stores 1, play
\* stores 0, and seek, rate and sync leave paused as it was.
C6_PausedByKind ==
  [][AcceptedAction(last') =>
       LET roomId == last'.roomId
           action == last'.frame.action
       IN room_state'[roomId].paused =
            CASE action = "pause" -> Num(1)
              [] action = "play" -> Num(0)
              [] OTHER -> room_state[roomId].paused]_vars

\* C6 witness: a seek was applied to a playing room and left it playing.
C6_Witness ==
  /\ AcceptedAction(last)
  /\ last.frame.action = "seek"
  /\ kept
  /\ Row(last.roomId).paused = Num(0)

\* C7: a sync action carrying the room's current position and playbackRate
\* leaves videoPath, position, paused and playbackRate as they were.
C7_SyncIdempotent ==
  [][(/\ AcceptedAction(last')
      /\ last'.frame.action = "sync"
      /\ last'.frame.position = room_state[last'.roomId].position
      /\ last'.frame.playbackRate = room_state[last'.roomId].playback_rate) =>
       LET roomId == last'.roomId
       IN /\ room_state'[roomId].video_path = room_state[roomId].video_path
          /\ room_state'[roomId].position = room_state[roomId].position
          /\ room_state'[roomId].paused = room_state[roomId].paused
          /\ room_state'[roomId].playback_rate = room_state[roomId].playback_rate]_vars

\* C7 witness: a sync carrying position 2 and rate 2 was applied to a playing
\* room with a video, found those values stored and restamped the row.
C7_Witness ==
  /\ AcceptedAction(last) /\ last.frame.action = "sync"
  /\ last.frame.position = Num(2) /\ last.frame.playbackRate = Num(2)
  /\ kept
  /\ Row(last.roomId).position = Num(2)
  /\ Row(last.roomId).playback_rate = Num(2)
  /\ Row(last.roomId).paused = Num(0)
  /\ Row(last.roomId).video_path = Str("a.mp4")
  /\ Row(last.roomId).updated_at.iso = 1

\* C8: an action message of an unknown kind leaves every row, updated_at
\* included, as it was and sends nothing.
C8_UnknownKindIgnored ==
  [][UnknownAction(last') =>
       /\ room_state' = room_state
       /\ sendLog' = <<>>]_vars

\* C8 witness: a "foo" carrying position 2 reached a room whose row keeps
\* another position and a stamp older than the clock, and nothing was sent.
C8_Witness ==
  /\ UnknownAction(last) /\ last.frame.action = "foo"
  /\ last.frame.position = Num(2)
  /\ Row(last.roomId).position # Num(2)
  /\ Row(last.roomId).updated_at.iso < clock
  /\ sendLog = <<>>

\* C9: an accepted action with a non-finite numeric field is applied all the
\* same: that field keeps its prior value, a finite other field is written,
\* paused follows the kind, and the stored row is broadcast to the room.
C9_NonFiniteFieldDropped ==
  [][(/\ AcceptedAction(last')
      /\ \/ last'.frame.position \in NonFiniteFields
         \/ last'.frame.playbackRate \in NonFiniteFields) =>
       LET roomId == last'.roomId
           frame == last'.frame
       IN /\ frame.position \in NonFiniteFields =>
               room_state'[roomId].position = room_state[roomId].position
          /\ frame.playbackRate \in NonFiniteFields =>
               room_state'[roomId].playback_rate = room_state[roomId].playback_rate
          /\ frame.position.t = "number" =>
               room_state'[roomId].position = frame.position
          /\ frame.playbackRate.t = "number" =>
               room_state'[roomId].playback_rate = frame.playbackRate
          /\ frame.action = "pause" => room_state'[roomId].paused = Num(1)
          /\ frame.action = "play" => room_state'[roomId].paused = Num(0)
          /\ sendLog' # <<>>
          /\ \A i \in 1..Len(sendLog') :
               Carries(sendLog'[i].payload, room_state'[roomId])]_vars

\* C9 witness: a pause whose position is NaN paused a playing room, kept the
\* stored position 2, wrote the rate 2 it carried and was broadcast.
C9_Witness ==
  /\ AcceptedAction(last) /\ last.frame.action = "pause"
  /\ last.frame.position = Str("abc")
  /\ last.frame.playbackRate = Num(2)
  /\ ~kept
  /\ Row(last.roomId).paused = Num(1)
  /\ Row(last.roomId).position = Num(2)
  /\ Row(last.roomId).playback_rate = Num(2)
  /\ sendLog # <<>>

\* C10: an accepted action sends exactly one state message, holding the row
\* updateRoomState returned, to every channel registered in the room, the
\* sender among them, and none to any other channel.
C10_ActionBroadcast ==
  AcceptedAction(last) =>
    /\ last.ws \in Registered(last.roomId)
    /\ BroadcastToRoom(last.roomId)
    /\ \A i \in 1..Len(sendLog) : sendLog[i].payload.data.serverTime = clock

\* C10 witness: an action in a room of two channels was sent to both.
C10_Witness ==
  /\ AcceptedAction(last)
  /\ Registered(last.roomId) = {"c1", "c2"}
  /\ {sendLog[i].to : i \in 1..Len(sendLog)} = {"c1", "c2"}
  /\ Len(sendLog) = 2

\* ------------------------------------------------------------------------
\* C11 - C13: atomicity and order
\* ------------------------------------------------------------------------

\* C11: an accepted action or an admitted set-video reads, writes and
\* broadcasts in one step.  The row it writes is built on the row stored
\* just before it (an action keeps that row's videoPath, a set-video its
\* playbackRate), no other room's row changes, and every state message of
\* its broadcast carries the row that is stored when it is sent.
C11_AtomicReadModifyWriteBroadcast ==
  [][(AcceptedAction(last') \/ SetVideoDone(last')) =>
       LET roomId == last'.roomId
       IN /\ \A i \in 1..Len(sendLog') :
               Carries(sendLog'[i].payload, room_state'[roomId])
          /\ AcceptedAction(last') =>
               room_state'[roomId].video_path = room_state[roomId].video_path
          /\ (SetVideoDone(last') /\ roomId \in DOMAIN room_state) =>
               room_state'[roomId].playback_rate = room_state[roomId].playback_rate
          /\ \A other \in DOMAIN room_state \ {roomId} :
               room_state'[other] = room_state[other]]_vars

\* C11 witness: a set-video came after an action had stored rate 2 and
\* position 2; its broadcast to two channels carries rate 2, position 0 and
\* the new path.
C11_Witness ==
  /\ SetVideoDone(last) /\ last.videoPath = Str("a.mp4")
  /\ Row(last.roomId).playback_rate = Num(2)
  /\ ~kept
  /\ Len(sendLog) = 2
  /\ \A i \in 1..Len(sendLog) :
       /\ sendLog[i].payload.data.playbackRate = Num(2)
       /\ sendLog[i].payload.data.position = Num(0)
       /\ sendLog[i].payload.data.videoPath = Str("a.mp4")

\* C12: no channel is sent a state message whose updatedAt is older than
\* that of the state message it was sent before.
C12_ChannelSeesNonDecreasingUpdatedAt ==
  [][\A i \in 1..Len(sendLog') :
       seen[sendLog'[i].to].iso <= sendLog'[i].payload.data.updatedAt.iso]_vars

\* C12 witness: a channel that had been sent the initial push and at least
\* one broadcast (the room plays, and a seek keeps it so) is sent as a
\* member that is not the sender the broadcast of a seek, stamped 1.
C12_Witness ==
  /\ AcceptedAction(last) /\ last.ws = "c1" /\ last.frame.action = "seek"
  /\ Row(last.roomId).paused = Num(0)
  /\ seen["c2"].iso = 1
  /\ seen["c1"].iso = 1
  /\ \E i \in 1..Len(sendLog) :
       sendLog[i].to = "c2" /\ sendLog[i].payload.data.updatedAt.iso = 1

\* C13: with a clock that does not run backwards, the updatedAt of a stored
\* row never decreases from one snapshot to the next, whatever actions and
\* set-video calls are applied.
C13_UpdatedAtNonDecreasing ==
  [][\A roomId \in DOMAIN room_state :
       /\ roomId \in DOMAIN room_state'
       /\ room_state[roomId].updated_at.iso <= room_state'[roomId].updated_at.iso]_vars

\* C13 witness: a set-video at clock 1 restamped a row that an action had
\* written before it (the row holds rate 2, which only an action stores).
C13_Witness ==
  /\ SetVideoDone(last)
  /\ clock = 1
  /\ Row(last.roomId).updated_at.iso = 1
  /\ Row(last.roomId).playback_rate = Num(2)
  /\ Row(last.roomId).position = Num(0)

\* ------------------------------------------------------------------------
\* C14 - C16: membership
\* ------------------------------------------------------------------------

\* call is a /ws request that was upgraded, so that websocket.open ran
Opened(call) == call.op = "fetch_ws" /\ call.status = 101

\* data holds the default RoomState
IsDefaultState(data) ==
  /\ data.videoPath = Null
  /\ data.position = Num(0)
  /\ data.paused = TRUE
  /\ data.playbackRate = Num(1)

\* C14: a channel that opens on a room without a row is sent the default
\* RoomState stamped with the clock; a channel that opens on a room whose
\* row is still the default one is sent the default RoomState with the very
\* updatedAt the members before it were sent, in whatever order the two
\* opens run.  The table holds one row per room id and no row is deleted.
C14_JoinersGetSameDefault ==
  [][/\ Opened(last') =>
          LET roomId == last'.roomId
              data == sendLog'[1].payload.data
          IN /\ Len(sendLog') = 1
             /\ roomId \notin DOMAIN room_state =>
                  /\ IsDefaultState(data)
                  /\ data.updatedAt = nowIso
             /\ (/\ roomId \in DOMAIN room_state
                 /\ IsDefaultState(StateMessage(roomId, room_state[roomId]).data)) =>
                  /\ IsDefaultState(data)
                  /\ \A ws \in Registered(roomId) : data.updatedAt = seen[ws]
     /\ \A roomId \in DOMAIN room_state : roomId \in DOMAIN room_state'
     /\ \A roomId \in DOMAIN room_state' : room_state'[roomId].room_id = roomId]_vars

\* C14 witness: c2 opened at clock 1 on the room c1 had opened at clock 0;
\* both hold the default RoomState stamped 0.
C14_Witness ==
  /\ Opened(last) /\ last.ws = "c2"
  /\ clock = 1
  /\ Registered(last.roomId) = {"c1", "c2"}
  /\ IsDefaultState(sendLog[1].payload.data)
  /\ sendLog[1].payload.data.updatedAt.iso = 0
  /\ seen["c1"].iso = 0
  /\ seen["c2"].iso = 0
  /\ DOMAIN room_state = {last.roomId}

\* C15: when a channel opens on a room it becomes a member of that room,
\* next to the members there were, and exactly one message is sent: to the
\* opening channel, holding the room's stored RoomState and the clock as
\* serverTime.  A row that existed before the open is left as it was.
C15_OpenPushesCurrentState ==
  [][Opened(last') =>
       LET roomId == last'.roomId
           ws == last'.ws
       IN /\ roomId \in DOMAIN socketsByRoom'
          /\ Members(socketsByRoom'[roomId]) = Registered(roomId) \cup {ws}
          /\ Len(sendLog') = 1
          /\ sendLog'[1].to = ws
          /\ Carries(sendLog'[1].payload, room_state'[roomId])
          /\ sendLog'[1].payload.data.serverTime = clock
          /\ roomId \in DOMAIN room_state => room_state' = room_state]_vars

\* C15 witness: c2 opened on the room of c1 after an action and a set-video
\* had changed its row, and c2 alone was sent that row.
C15_Witness ==
  /\ Opened(last) /\ last.ws = "c2"
  /\ Registered(last.roomId) = {"c1", "c2"}
  /\ kept
  /\ Row(last.roomId).video_path = Str("a.mp4")
  /\ Row(last.roomId).playback_rate = Num(2)
  /\ Len(sendLog) = 1
  /\ sendLog[1].to = "c2"
  /\ sendLog[1].payload.data.playbackRate = Num(2)
  /\ sendLog[1].payload.data.videoPath = Str("a.mp4")

\* C16: a close takes the channel out of the Set of its room, keeps the
\* other members, sends nothing and leaves the table as it was.  No handler
\* sends to a channel that is not open, and a channel is in no Set but that
\* of the room its /ws request named, which never changes afterwards.
C16_CloseDeregisters ==
  [][/\ last'.op = "close" =>
          LET roomId == last'.roomId
              ws == last'.ws
          IN /\ Members(socketsByRoom'[roomId]) = Registered(roomId) \ {ws}
             /\ sendLog' = <<>>
             /\ room_state' = room_state
     /\ \A i \in 1..Len(sendLog') : wsData'[sendLog'[i].to].readyState = "open"
     /\ \A roomId \in DOMAIN socketsByRoom' :
          \A ws \in Members(socketsByRoom'[roomId]) :
            /\ wsData'[ws].readyState = "open"
            /\ wsData'[ws].roomId = roomId
     /\ \A ws \in Channels :
          wsData[ws].readyState # "new" => wsData'[ws].roomId = wsData[ws].roomId]_vars

\* C16 witness: c2 had joined main and closed; c1, in main too, then sent a
\* seek whose broadcast went to c1 alone, while den has a row of its own.
C16_Witness ==
  /\ AcceptedAction(last) /\ last.ws = "c1" /\ last.roomId = "main"
  /\ wsData["c2"] = [roomId |-> "main", readyState |-> "closed"]
  /\ Registered("main") = {"c1"}
  /\ Len(sendLog) = 1
  /\ sendLog[1].to = "c1"
  /\ "den" \in DOMAIN room_state

\* ------------------------------------------------------------------------
\* C17 - C20: failures
\* ------------------------------------------------------------------------

\* call is a set-video request of an admin
SetVideoAdmitted(call) ==
  call.op = "set-video" /\ call.session.ok /\ call.session.isAdmin

C18_SetVideoNeedsAdmin ==
  [][(/\ last'.op = "set-video"
      /\ ~(last'.session.ok /\ last'.session.isAdmin)) =>
       /\ last'.status = IF last'.session.ok THEN 403 ELSE 401
       /\ room_state' = room_state
       /\ sendLog' = <<>>
       /\ seen' = seen]_vars

\* C18 witness: a signed-in caller who is not admin asked for a.mp4 in main,
\* where two channels are members and the row has no video; the answer was
\* 403, the row has no video still and nothing was sent.
C18_Witness ==
  /\ last.op = "set-video" /\ last.status = 403
  /\ last.session = Session(FALSE)
  /\ last.roomId = "main" /\ last.videoPath = Str("a.mp4")
  /\ Registered("main") = {"c1", "c2"}
  /\ Row("main").video_path = Null
  /\ Row("main").position = Num(2)
  /\ sendLog = <<>>

\* C19: a frame that is no JSON, no object or not of type "action" leaves
\* every row as it was and sends nothing, and its sender stays open and a
\* member of its room, which is all websocket.message asks of the sender of
\* a later action.
C19_MalformedFrameDropped ==
  [][(last'.op = "message" /\ ~IsAction(last')) =>
       LET roomId == last'.roomId
           ws == last'.ws
       IN /\ room_state' = room_state
          /\ sendLog' = <<>>
          /\ seen' = seen
          /\ wsData'[ws] = [roomId |-> roomId, readyState |-> "open"]
          /\ ws \in Members(socketsByRoom'[roomId])]_vars

\* C19 witness: c1 sent a message of type "state" that names the kind play
\* with position 2 to a paused room at another position, at clock 1; the
\* row keeps its fields and its stamp 0, and nothing was sent.
C19_Witness ==
  /\ last.op = "message" /\ last.ws = "c1"
  /\ last.frame = Frame("object", "state", "play", Num(2), Num(2))
  /\ Row(last.roomId).paused = Num(1)
  /\ Row(last.roomId).position = Num(-1)
  /\ Row(last.roomId).updated_at.iso = 0
  /\ clock = 1
  /\ sendLog = <<>>
  /\ "c1" \in Registered(last.roomId)

\* C20: an accepted action whose write statement throws leaves every row
\* as it was and sends nothing to any channel; a fault or a recovery of
\* the storage applies nothing by itself (there is no retry); and an
\* accepted action whose write statement does not throw is stored with the
\* stamp of the clock and, when no send throws, sent once to every member.
C20_FailedWriteAbandoned ==
  [][/\ (AcceptedAction(last') /\ dbFails) =>
          /\ room_state' = room_state
          /\ sendLog' = <<>>
          /\ seen' = seen
     /\ last'.op \in {"storage-fault", "storage-recovers"} =>
          room_state' = room_state /\ sendLog' = <<>>
     /\ (AcceptedAction(last') /\ ~dbFails) =>
          /\ room_state'[last'.roomId].updated_at = nowIso
          /\ last'.frame.position.t = "number" =>
               room_state'[last'.roomId].position = last'.frame.position
          /\ sendThrows = {} =>
               /\ \A ws \in Channels :
                    Cardinality({i \in 1..Len(sendLog') : sendLog'[i].to = ws})
                      = IF ws \in Members(socketsByRoom'[last'.roomId]) THEN 1 ELSE 0
               /\ \A i \in 1..Len(sendLog') :
                    Carries(sendLog'[i].payload, room_state'[last'.roomId])]_vars

\* C20 witness: while the write statements throw, c1 sent a seek to
\* position 2 at clock 1 into a room of two members whose row holds position
\* 0 and stamp 0; the row is as it was and nothing was sent.
C20_Witness ==
  /\ AcceptedAction(last) /\ last.ws = "c1"
  /\ last.frame.action = "seek" /\ last.frame.position = Num(2)
  /\ dbFails
  /\ Registered(last.roomId) = {"c1", "c2"}
  /\ last.roomId \in DOMAIN room_state
  /\ Row(last.roomId).position = Num(0)
  /\ Row(last.roomId).updated_at.iso = 0
  /\ clock = 1
  /\ sendLog = <<>>

\* ------------------------------------------------------------------------
\* C21, C22: rooms and restart
\* ------------------------------------------------------------------------

\* C21: an accepted action or an admitted set-video on one room leaves the
\* row of every other room as it was and sends no state message to a
\* channel of another room.
C21_RoomsAreIsolated ==
  [][(AcceptedAction(last') \/ SetVideoAdmitted(last')) =>
       LET roomId == last'.roomId
       IN /\ \A other \in DOMAIN room_state \ {roomId} :
               room_state'[other] = room_state[other]
          /\ \A i \in 1..Len(sendLog') :
               /\ wsData'[sendLog'[i].to].roomId = roomId
               /\ sendLog'[i].payload.data.roomId = roomId
          /\ \A ws \in Channels :
               wsData'[ws].roomId # roomId => seen'[ws] = seen[ws]]_vars

\* C21 witness: c1 in main sent a seek to position 2 at clock 1 while c2 is
\* a member of den; den keeps its default row stamped 0, and c1 alone was
\* sent the new state.
C21_Witness ==
  /\ AcceptedAction(last) /\ last.ws = "c1" /\ last.roomId = "main"
  /\ Registered("den") = {"c2"}
  /\ Row("main").position = Num(2)
  /\ Row("main").updated_at.iso = 1
  /\ Row("den").position = Num(0)
  /\ Row("den").updated_at.iso = 0
  /\ seen["c2"].iso = 0
  /\ Len(sendLog) = 1 /\ sendLog[1].to = "c1"

\* C22: a restart leaves no channel a member of any room, sends nothing and
\* leaves every stored row, updated_at included, as it was; a channel that
\* opens on a room after a restart is sent the row that room had before.
C22_RestartKeepsRoomState ==
  [][/\ last'.op = "restart" =>
          /\ \A roomId \in TwoRooms : Registered(roomId)' = {}
          /\ room_state' = room_state
          /\ sendLog' = <<>>
     /\ (/\ Opened(last')
         /\ \E ws \in Channels : wsData[ws].readyState = "lost"
         /\ last'.roomId \in DOMAIN room_state) =>
          /\ room_state' = room_state
          /\ Carries(sendLog'[1].payload, room_state[last'.roomId])]_vars

\* C22 witness: c1 wrote position 2 and rate 2 in main at clock 0 and was
\* lost in a restart; c2, opening on main at clock 1, is the only member
\* and was sent position 2, rate 2 and the stamp 0.
C22_Witness ==
  /\ Opened(last) /\ last.ws = "c2" /\ last.roomId = "main"
  /\ wsData["c1"] = [roomId |-> "main", readyState |-> "lost"]
  /\ Registered("main") = {"c2"}
  /\ clock = 1
  /\ Row("main").position = Num(2)
  /\ Row("main").updated_at.iso = 0
  /\ sendLog[1].payload.data.position = Num(2)
  /\ sendLog[1].payload.data.playbackRate = Num(2)
  /\ sendLog[1].payload.data.updatedAt.iso = 0

\* ------------------------------------------------------------------------
\* C23 - C25, C27 - C30: the page
\* ------------------------------------------------------------------------

\* the last handler of the page was applyState and it ran to its end
Applied(call) == call.op = "applyState" /\ ~call.threw

\* the position of the element when applyState compares it with the
\* target: 0 after a switch of the video, else where the element was
LocalPosition(data) ==
  IF data.videoPath # appState.currentVideo THEN 0 ELSE videoPlayer.currentTime

\* C23: a play, pause, seeked or ratechange event that is dispatched while
\* applyingRemote is set or before ignoreEventsUntil sends nothing; so the
\* pause event that follows a state message with paused = true sends no
\* pause action during the 600 ms after the message.
C23_EchoSwallowedInWindow ==
  [][(/\ lastApp'.op = "event"
      /\ appState.applyingRemote \/ now < appState.ignoreEventsUntil) =>
       outbox' = <<>>]_vars

\* C23 witness: the pause event queued by a state message with paused =
\* true was dispatched 300 ms after it, with the socket open and the page
\* idle, and nothing was sent.
C23_Witness ==
  /\ lastApp.op = "event" /\ lastApp.kind = "pause" /\ lastApp.origin = "remote"
  /\ appState.wsOpen /\ ~appState.applyingRemote
  /\ appState.ignoreEventsUntil = 3600
  /\ now = 3300
  /\ videoPlayer.paused
  /\ outbox = <<>>

\* C24 (as claimed): applyState with a video selected aims at position when
\* paused and at position + max(0, now - serverTime) * playbackRate of the
\* message when playing; the element, when it is moved, is moved there, and
\* it is moved when it is more than 400 ms away from there.
C24_TargetPosition ==
  [][(Applied(lastApp') /\ lastApp'.data.videoPath # Null) =>
       LET data == lastApp'.data
           elapsed == IF now > data.serverTime THEN now - data.serverTime ELSE 0
           target == IF data.paused THEN data.position
                     ELSE data.position + elapsed * data.playbackRate
           far == \/ LocalPosition(data) - target > 400
                  \/ target - LocalPosition(data) > 400
       IN videoPlayer'.currentTime = IF far THEN target ELSE LocalPosition(data)]_vars

\* C25: applyState with a video selected moves the element to its target
\* when the element is more than 400 ms away from it, and leaves the
\* element where it is when it is 400 ms away or less.
C25_SeekOnlyBeyondTolerance ==
  [][(Applied(lastApp') /\ lastApp'.data.videoPath # Null) =>
       LET data == lastApp'.data
           target == TargetTime(data, videoPlayer')
           far == \/ LocalPosition(data) - target > 400
                  \/ target - LocalPosition(data) > 400
       IN /\ far => videoPlayer'.currentTime = target /\ videoPlayer'.seeking
          /\ ~far => videoPlayer'.currentTime = LocalPosition(data)]_vars

\* C25 witness: position 10 s sent 2 s ago at rate 1, playing, makes the
\* target 12 s; the element, at 11.9 s, was left there and is not seeking.
C25_Witness ==
  /\ Applied(lastApp)
  /\ lastApp.data = StateData(Str("a.mp4"), 10000, FALSE, 1, now - 2000)
  /\ videoPlayer.currentTime = 11900
  /\ ~videoPlayer.seeking
  /\ ~videoPlayer.paused

\* C26: a login for an email that has no users row is answered 403 and
\* leaves the sessions and the users as they were; a new session is always
\* for an email that has a users row, and a users row comes into existence
\* only by the acceptance of an invite that is for this email and has a use
\* left (the seeded rows exist from the start).
C26_LoginInviteOnly ==
  [][/\ (/\ lastAuth'.op = "login"
         /\ lastAuth'.email # ""
         /\ lastAuth'.email \notin DOMAIN users) =>
          /\ lastAuth'.status = 403
          /\ sessions' = sessions
          /\ users' = users
     /\ \A t \in DOMAIN sessions' \ DOMAIN sessions :
          sessions'[t].email \in DOMAIN users'
     /\ \A e \in DOMAIN users' \ DOMAIN users :
          /\ lastAuth'.op = "invites/accept"
          /\ lastAuth'.status = 200
          /\ lastAuth'.email = e
          /\ lastAuth'.token \in DOMAIN invites
          /\ invites[lastAuth'.token].email = Str(e)
          /\ invites[lastAuth'.token].uses_remaining > 0]_vars

\* C26 witness: an invite for guest@example.com exists and was not
\* accepted; the login of guest@example.com was answered 403, and the only
\* session is the one of the seeded admin.
C26_Witness ==
  /\ lastAuth.op = "login" /\ lastAuth.status = 403
  /\ lastAuth.email = "guest@example.com"
  /\ "guest@example.com" \notin DOMAIN users
  /\ \E token \in DOMAIN invites :
       /\ invites[token].email = Str("guest@example.com")
       /\ invites[token].uses_remaining = 1
  /\ DOMAIN sessions = {1}
  /\ sessions[1].email = "admin@example.com"

\* C27 (as claimed): after applyState, whatever the message, applyingRemote
\* is false and ignoreEventsUntil is the time of the call plus 600 ms.
C27_BackToIdle ==
  lastApp.op = "applyState" =>
    /\ ~appState.applyingRemote
    /\ appState.ignoreEventsUntil = now + 600

\* C28 (as claimed): a play, pause, seeked or ratechange event dispatched
\* while applyingRemote is false, the window is over and the socket is open
\* sends exactly one action, of the kind of the event, with the position
\* and the playbackRate of the element.
C28_LocalEventSendsAction ==
  [][(/\ lastApp'.op = "event"
      /\ ~appState.applyingRemote
      /\ now >= appState.ignoreEventsUntil
      /\ appState.wsOpen) =>
       outbox' = <<[type |-> "action",
                    action |-> ActionOf(lastApp'.kind),
                    position |-> videoPlayer'.currentTime,
                    playbackRate |-> videoPlayer'.playbackRate]>>]_vars

\* C29 (as claimed): an event that applyState caused, whenever it is
\* dispatched, sends no action.
C29_NoEchoOfRemoteState ==
  (lastApp.op = "event" /\ lastApp.origin = "remote") => outbox = <<>>

\* C30 (as claimed): after applyState the element has the playbackRate and
\* the paused flag of the message, whatever the message.
C30_ElementMatchesMessage ==
  lastApp.op = "applyState" =>
    /\ videoPlayer.playbackRate = lastApp.data.playbackRate
    /\ videoPlayer.paused = lastApp.data.paused

\* ------------------------------------------------------------------------
\* C32: who writes videoPath
\* ------------------------------------------------------------------------

\* C32: a handler other than set-video (a message of any kind and payload,
\* an open, a close) leaves the video_path of every stored row as it was,
\* deletes no row, and a row it creates has no video.
C32_VideoPathOnlyBySetVideo ==
  [][last'.op # "set-video" =>
       /\ DOMAIN room_state \subseteq DOMAIN room_state'
       /\ \A roomId \in DOMAIN room_state :
            room_state'[roomId].video_path = room_state[roomId].video_path
       /\ \A roomId \in DOMAIN room_state' \ DOMAIN room_state :
            room_state'[roomId].video_path = Null]_vars

\* C32 witness: main has a video; a seek to position 2 at rate 2 was
\* applied and broadcast, and the video is still there.
C32_Witness ==
  /\ AcceptedAction(last) /\ last.frame.action = "seek"
  /\ "main" \in DOMAIN room_state
  /\ Row("main").video_path # Null
  /\ Row("main").position = Num(2)
  /\ Len(sendLog) > 0
  /\ sendLog[1].payload.data.videoPath = Row("main").video_path

\* ------------------------------------------------------------------------
\* C36 - C38: sessions, admins and invites
\* ------------------------------------------------------------------------

\* the session rows of a user that are not expired
LiveSessions(email) ==
  {t \in DOMAIN sessions : sessions[t].email = email /\ ~sessions[t].expired}

\* C36: a channel is opened only by a request whose session is valid at
\* that moment; no handler but its own close takes a channel out of its
\* room, a logout or an expiry of its session included; and an accepted
\* action of a member is written to the row and sent to every member,
\* whatever has become of the sessions.
C36_AuthOnlyAtUpgrade ==
  [][/\ (/\ Opened(last')
         /\ wsData[last'.ws].readyState = "new"
         /\ wsData'[last'.ws].readyState = "open") =>
          \E t \in LiveSessions(wsUserId'[last'.ws]) : TRUE
     /\ (last'.op = "fetch_ws" /\ ~last'.session.ok) =>
          (socketsByRoom' = socketsByRoom /\ last'.status = 401)
     /\ \A ws \in Registered("main") :
          (ws \in Registered("main")') \/ (last'.op = "close" /\ last'.ws = ws)
     /\ AcceptedAction(last') =>
          /\ last'.roomId \in DOMAIN room_state'
          /\ last'.roomId \in DOMAIN socketsByRoom'
          /\ {sendLog'[i].to : i \in 1..Len(sendLog')} =
               Members(socketsByRoom'[last'.roomId])
          /\ \A i \in 1..Len(sendLog') :
               Carries(sendLog'[i].payload, room_state'[last'.roomId])
          /\ last'.frame.action = "seek" =>
               room_state'[last'.roomId].position = last'.frame.position
          /\ last'.frame.action = "play" =>
               room_state'[last'.roomId].paused = Num(0)]_vars

\* C36 witness: c1 was opened by the seeded admin, who then logged out (no
\* session row is left); the seek of c1 to position 2 was written and sent
\* to c1 and c2.
C36_Witness ==
  /\ AcceptedAction(last) /\ last.ws = "c1" /\ last.frame.action = "seek"
  /\ wsUserId["c1"] = "admin@example.com"
  /\ sqlite_sequence > 0 /\ DOMAIN sessions = {}
  /\ Registered("main") = {"c1", "c2"}
  /\ Row("main").position = Num(2)
  /\ {sendLog[i].to : i \in 1..Len(sendLog)} = {"c1", "c2"}

\* C37: every users row has is_admin set, every cookie that has a session
\* passes requireAdmin, and set-video answers no request that has a session
\* with 403.
C37_EveryUserIsAdmin ==
  /\ \A email \in DOMAIN users : users[email].is_admin
  /\ \A cookie \in Cookies :
       getSession(cookie).ok => requireAdmin(getSession(cookie)).ok
  /\ last.op = "set-video" => last.status \in {200, 401}
  /\ (last.op = "set-video" /\ last.session.ok) => last.status = 200

\* C37 witness: the only session ever made is the one the guest got by
\* accepting the invite; with it, set-video was answered 200 and the room
\* has the video.
C37_Witness ==
  /\ last.op = "set-video" /\ last.status = 200
  /\ sqlite_sequence = 1
  /\ DOMAIN sessions = {1}
  /\ sessions[1] = [email |-> "guest@example.com", expired |-> FALSE]
  /\ Row("main").video_path = Str("a.mp4")

\* C38: uses_remaining of an invite starts at 1, never grows and is never
\* below 0; an accept succeeds only on an invite with a use left and takes
\* it; an accept that is rejected leaves users, sessions and invites as
\* they were.
C38_InviteSingleUse ==
  [][/\ \A token \in DOMAIN invites :
          /\ token \in DOMAIN invites'
          /\ invites'[token].uses_remaining <= invites[token].uses_remaining
          /\ invites'[token].uses_remaining >= 0
     /\ \A token \in DOMAIN invites' \ DOMAIN invites :
          invites'[token].uses_remaining = 1
     /\ (lastAuth'.op = "invites/accept" /\ lastAuth'.status = 200) =>
          /\ lastAuth'.token \in DOMAIN invites
          /\ invites'[lastAuth'.token].uses_remaining = 0
          /\ lastAuth'.email \in DOMAIN users'
     /\ (lastAuth'.op = "invites/accept" /\ lastAuth'.status # 200) =>
          /\ users' = users
          /\ sessions' = sessions
          /\ invites' = invites]_vars

\* C38 witness: the invite of guest@example.com was accepted once; a second
\* accept with the same token and email was answered 403, and there is
\* still one session.
C38_Witness ==
  /\ lastAuth.op = "invites/accept" /\ lastAuth.status = 403
  /\ lastAuth.email = "guest@example.com"
  /\ lastAuth.token \in DOMAIN invites
  /\ invites[lastAuth.token] =
       [email |-> Str("guest@example.com"), uses_remaining |-> 0, expires_at |-> Null]
  /\ "guest@example.com" \in DOMAIN users
  /\ DOMAIN sessions = {1}
  /\ sqlite_sequence = 1

\* ------------------------------------------------------------------------
\* C34: the seek buttons
\* ------------------------------------------------------------------------

\* the seek action that carries the position and the rate of element el
SeekActionOf(el) ==
  [type |-> "action", action |-> "seek",
   position |-> el.currentTime, playbackRate |-> el.playbackRate]

\* C34: a click on seekBack or seekForward sends one seek action with the
\* new position whenever the socket is open, whatever applyingRemote and
\* ignoreEventsUntil are; and the seeked event of such a click, dispatched
\* when the listeners are not suppressed and the socket is open, sends a
\* seek action again.
C34_SeekButtonsSendDirectly ==
  [][/\ lastApp'.op = "click" =>
          outbox' = IF appState.wsOpen THEN <<SeekActionOf(videoPlayer')>> ELSE <<>>
     /\ (/\ lastApp'.op = "event" /\ lastApp'.kind = "seeked"
         /\ lastApp'.origin = "button"
         /\ ~appState.applyingRemote
         /\ now >= appState.ignoreEventsUntil
         /\ appState.wsOpen) =>
          outbox' = <<SeekActionOf(videoPlayer')>>]_vars

\* C34 witness: a click on seekForward found the socket open, so it sent a
\* seek action; its seeked event was dispatched after the window and sent
\* a second seek action for the same position, 20 s.
C34_Witness ==
  /\ lastApp.op = "event" /\ lastApp.kind = "seeked" /\ lastApp.origin = "button"
  /\ now >= appState.ignoreEventsUntil
  /\ appState.ignoreEventsUntil > 0
  /\ videoPlayer.currentTime = 20000
  /\ outbox = <<SeekActionOf(videoPlayer)>>

\* ------------------------------------------------------------------------
\* C31, C35: subtitles of the page
\* ------------------------------------------------------------------------

\* C31 (as claimed): when a state message changes the video of the page to a
\* video V, a subtitle request for V is in flight afterwards, unless V was
\* loaded less than DebounceMs ago; also when a request for another video
\* was in flight at the switch.
C31_DiscoveryStartsOnSwitch ==
  [][(/\ lastApp'.op = "applyState"
      /\ appState'.currentVideo # appState.currentVideo
      /\ appState'.currentVideo # Null
      /\ ~(/\ subtitles.subtitleLastVideo = appState'.currentVideo
           /\ now - subtitles.subtitleLastLoadedAt < DebounceMs))
     => subtitles'.request = appState'.currentVideo]_vars

\* C35 (as claimed): while the page has a video and no subtitle request is
\* in flight, the list shows "Off" alone or the tracks of that video, and
\* the track shown, if any, is one of that video.
C35_OptionsOfCurrentVideo ==
  (appState.currentVideo # Null /\ subtitles.request = Null) =>
    /\ subtitles.options \in {Null, appState.currentVideo}
    /\ subtitles.track \in {Null, appState.currentVideo}

\* ------------------------------------------------------------------------
\* C33: the page and the room state
\* ------------------------------------------------------------------------

\* no state message is on its way to the page, no media event is queued,
\* and the page is outside its suppression window
Quiescent ==
  /\ ~Undelivered
  /\ pending = {}
  /\ ~appState.applyingRemote
  /\ now >= appState.ignoreEventsUntil

\* the page is connected and has a video
ConnectedWithVideo ==
  /\ appState.wsOpen
  /\ wsData["c1"].readyState = "open"
  /\ appState.currentVideo # Null

\* C33 (as claimed): whenever the system is quiescent, a connected page with
\* a video has the paused flag, the playback rate and the video of the row
\* of its room.
C33_QuiescentPageMatchesRoom ==
  (Quiescent /\ ConnectedWithVideo) =>
    /\ "main" \in DOMAIN room_state
    /\ videoPlayer.paused = (room_state["main"].paused = Num(1))
    /\ Num(videoPlayer.playbackRate) = room_state["main"].playback_rate
    /\ appState.currentVideo = room_state["main"].video_path

====
